---- MODULE Spec2Model ----
(***************************************************************************)
(* State-machine model of the stuverflow backend: the content store        *)
(* (questions, answers, bookmarks), the notification table and the         *)
(* community membership workflow, as handled by src/api/views.py and       *)
(* src/communities/views.py over the rows of src/api/models.py and         *)
(* src/communities/models.py.                                              *)
(*                                                                         *)
(* Tables with an auto-increment key are sequences: the id of a row is its *)
(* index, a deleted row leaves a tombstone (ids are never reused).         *)
(***************************************************************************)
EXTENDS Integers, Sequences, FiniteSets, TLC

\* ---------------------------------------------------------------- bounds
NumUsers == 2
MaxQuestions == 2
MaxAnswers == 3
MaxVotes == 2
MaxNotifs == 2
MaxReqs == 2
MaxMemberships == 4
MaxTime == 6
MaxStarted == 3
MaxJoins == 2
MaxActivity == 10
MaxLikes == 1
MaxTagged == 3
MaxCommunities == 2
MaxLinks == 1
MaxPosts == 2

Users == 1..NumUsers
Reqs == 1..MaxReqs

\* Python's None for a nullable foreign key / an absent argument.
None == 0
\* A nullable action_url that is NULL.
NoUrl == <<>>
\* A deleted row.
Tomb == [live |-> FALSE]

VoteTypes == {"upvote", "downvote", "sideways"}
AnswerContents == {"text", " "}
Titles == {"title", ""}

VARIABLES
    questions,      \* Question table
    answers,        \* Answer table
    bookmarks,      \* Bookmark table: number of rows per (user, question)
    notifications,  \* Notification table
    communities,    \* Community table
    memberships,    \* CommunityMembership table
    messages,       \* CommunityMessage table
    likes,          \* CommunityMessageLike table: the (user, message) pairs
    community_questions,  \* CommunityQuestion table
    now,            \* the clock read by timezone.now() and auto_now_add
    reqs,           \* requests in flight (interleaved specifications)
    started,        \* number of requests received (interleaved specifications)
    last            \* the request answered last and its response

content == <<questions, answers, bookmarks>>
community ==
    <<communities, memberships, messages, likes, community_questions, now>>
db == <<content, notifications, community>>
flight == <<reqs, started>>
vars == <<db, flight, last>>

\* ------------------------------------------------------------ row shapes
Question(u, title, description) ==
    [live |-> TRUE, user |-> u, title |-> title, description |-> description,
     upvotes |-> 0, downvotes |-> 0]

Answer(u, q, c) ==
    [live |-> TRUE, user |-> u, question |-> q, content |-> c,
     upvotes |-> 0, downvotes |-> 0, is_accepted |-> FALSE]

Notification_unrelated(recipient, sender, ntype, rq, ra, url) ==
    [live |-> TRUE, recipient |-> recipient, sender |-> sender,
     notification_type |-> ntype, related_question |-> rq,
     related_answer |-> None, is_read |-> FALSE, action_url |-> url]

Notification(recipient, sender, ntype, rq, ra, url) ==
    [live |-> TRUE, recipient |-> recipient, sender |-> sender,
     notification_type |-> ntype, related_question |-> rq,
     related_answer |-> ra, is_read |-> FALSE, action_url |-> url]

\* The Bookmark table holds Count(bs, <<u, q>>) rows of user u and question q.
NoBookmarks == [p \in {} |-> 0]

Count(bs, p) == IF p \in DOMAIN bs THEN bs[p] ELSE 0

SetCount(bs, p, n) ==
    [x \in (DOMAIN bs \ {p}) \cup (IF n > 0 THEN {p} ELSE {}) |->
        IF x = p THEN n ELSE bs[x]]

\* ------------------------------------------------------------ ORM helpers
\* Model.objects.get(id=i): the row exists.
Exists(table, i) == i \in 1..Len(table) /\ table[i].live

\* Model.objects.create(...): a new row under the next id.
Create(table, row) == Append(table, row)

\* instance.save(): UPDATE of every column where id = i, INSERT under that id
\* when no row has it any more; the row written is the copy held in memory.
Save(table, i, row) == [table EXCEPT ![i] = row]

\* instance.delete()
Delete_nothing(table, i) == table

Delete(table, i) == [table EXCEPT ![i] = Tomb]

LiveIds(table) == {i \in 1..Len(table) : table[i].live}

\* The ids a request may name: those the table has given out, and one it
\* has not.
Ids(table) == 1..(Len(table) + 1)

\* The request answered and its response, as recorded in `last`.
Response(op, u, i, j, arg, code, resp) ==
    [op |-> op, user |-> u, id |-> i, id2 |-> j, arg |-> arg,
     code |-> code, resp |-> resp]

\* A response that leaves the database as it is.
Reply(op, u, i, j, arg, code, resp) ==
    /\ last' = Response(op, u, i, j, arg, code, resp)
    /\ UNCHANGED <<db, flight>>

\* ------------------------------------------------- Notification.create_notification
QuestionUrl(q) == <<"question", q>>

\* (action_url or f"/question/{id}") if related_question else None
ActionUrl(url, rq) ==
    IF rq # None THEN (IF url # NoUrl THEN url ELSE QuestionUrl(rq)) ELSE NoUrl

create_notification_unguarded(ns, recipient, ntype, sender, rq, ra, url) ==
    Create(ns, Notification(recipient, sender, ntype, rq, ra, ActionUrl(url, rq)))

create_notification(ns, recipient, ntype, sender, rq, ra, url) ==
    IF sender # None /\ recipient = sender
    THEN ns
    ELSE Create(ns, Notification(recipient, sender, ntype, rq, ra,
                                 ActionUrl(url, rq)))

\* ---------------------------------------------------------------- Init
Init ==
    /\ questions = <<>>
    /\ answers = <<>>
    /\ bookmarks = NoBookmarks
    /\ notifications = <<>>
    /\ communities = <<>>
    /\ memberships = <<>>
    /\ messages = <<>>
    /\ likes = {}
    /\ community_questions = <<>>
    /\ now = 1
    /\ reqs = <<>>
    /\ started = 0
    /\ last = Response("init", None, None, None, "", 0, "")

\* ------------------------------------------------------- question handlers
\* POST /questions/
questions_list_create(u, title, description) ==
    IF title = "" \/ description = ""
    THEN Reply("questions_list_create", u, None, None, title, 400, "")
    ELSE
        /\ questions' = Create(questions, Question(u, title, description))
        /\ last' = Response("questions_list_create", u, Len(questions) + 1,
                            None, title, 201, "")
        /\ UNCHANGED <<answers, bookmarks, notifications, community, flight>>

\* question.upvotes += 1 / answer.upvotes += 1
Upvoted_twice(row) == [row EXCEPT !.upvotes = @ + 2]

Upvoted(row) == [row EXCEPT !.upvotes = @ + 1]

\* question.downvotes += 1 / answer.downvotes += 1
Downvoted_as_upvote(row) == [row EXCEPT !.upvotes = @ + 1]

Downvoted(row) == [row EXCEPT !.downvotes = @ + 1]

\* POST /questions/{id}/vote/
vote_question(u, q, vt) ==
    IF ~Exists(questions, q)
    THEN Reply("vote_question", u, q, None, vt, 404, "")
    ELSE IF vt \notin {"upvote", "downvote"}
    THEN Reply("vote_question", u, q, None, vt, 400, "")
    ELSE
        LET row == questions[q] IN
        /\ IF vt = "upvote"
           THEN /\ notifications' =
                     IF row.user # u
                     THEN create_notification(notifications, row.user,
                              "question_vote", u, q, None, NoUrl)
                     ELSE notifications
                /\ questions' = Save(questions, q, Upvoted(row))
           ELSE /\ notifications' = notifications
                /\ questions' = Save(questions, q, Downvoted(row))
        /\ last' = Response("vote_question", u, q, None, vt, 200, "")
        /\ UNCHANGED <<answers, bookmarks, community, flight>>

\* Bookmark.objects.get_or_create(user, question), then bookmark.delete()
\* when the row was already there: the number of rows of the pair afterwards.
Toggled_keep(n) == IF n = 0 THEN 1 ELSE n

Toggled(n) == IF n = 0 THEN 1 ELSE n - 1

\* POST /questions/{id}/bookmark/
bookmark_question(u, q) ==
    IF ~Exists(questions, q)
    THEN Reply("bookmark_question", u, q, None, "", 404, "")
    ELSE
        LET created == Count(bookmarks, <<u, q>>) = 0 IN
        /\ bookmarks' = SetCount(bookmarks, <<u, q>>,
                                 Toggled(Count(bookmarks, <<u, q>>)))
        /\ last' = Response("bookmark_question", u, q, None, "", 200,
                            IF created THEN "isBookmarked" ELSE "notBookmarked")
        /\ UNCHANGED <<questions, answers, notifications, community, flight>>

\* --------------------------------------------------------- answer handlers
\* not content or not content.strip()
Blank(c) == c \in {"", " "}

\* POST /questions/{id}/answers/
question_answers(u, q, c) ==
    IF ~Exists(questions, q)
    THEN Reply("question_answers", u, q, None, c, 404, "")
    ELSE IF Blank(c)
    THEN Reply("question_answers", u, q, None, c, 400, "")
    ELSE
        /\ answers' = Create(answers, Answer(u, q, c))
        /\ notifications' =
             IF questions[q].user # u
             THEN create_notification(notifications, questions[q].user,
                      "answer", u, q, Len(answers) + 1, NoUrl)
             ELSE notifications
        /\ last' = Response("question_answers", u, q, Len(answers) + 1, c,
                            201, "")
        /\ UNCHANGED <<questions, bookmarks, community, flight>>

\* on_delete=CASCADE of Notification.related_answer
CascadeAnswer(ns, a) ==
    [i \in 1..Len(ns) |->
        IF ns[i].live /\ ns[i].related_answer = a THEN Tomb ELSE ns[i]]

\* PUT /answers/{id}/
answer_detail_put(u, a, c) ==
    IF ~Exists(answers, a)
    THEN Reply("answer_detail_put", u, a, None, c, 404, "")
    ELSE IF answers[a].user # u
    THEN Reply("answer_detail_put", u, a, None, c, 403, "")
    ELSE
        /\ answers' = IF c # ""
                      THEN Save(answers, a, [answers[a] EXCEPT !.content = c])
                      ELSE answers
        /\ last' = Response("answer_detail_put", u, a, None, c, 200, "")
        /\ UNCHANGED <<questions, bookmarks, notifications, community, flight>>

\* DELETE /answers/{id}/
answer_detail_delete(u, a) ==
    IF ~Exists(answers, a)
    THEN Reply("answer_detail_delete", u, a, None, "", 404, "")
    ELSE IF answers[a].user # u
    THEN Reply("answer_detail_delete", u, a, None, "", 403, "")
    ELSE
        /\ answers' = Delete(answers, a)
        /\ notifications' = CascadeAnswer(notifications, a)
        /\ last' = Response("answer_detail_delete", u, a, None, "", 200, "")
        /\ UNCHANGED <<questions, bookmarks, community, flight>>

\* POST /answers/{id}/vote/
vote_answer(u, a, vt) ==
    IF ~Exists(answers, a)
    THEN Reply("vote_answer", u, a, None, vt, 404, "")
    ELSE IF vt \notin {"upvote", "downvote"}
    THEN Reply("vote_answer", u, a, None, vt, 400, "")
    ELSE
        LET row == answers[a] IN
        /\ IF vt = "upvote"
           THEN /\ notifications' =
                     IF row.user # u
                     THEN create_notification(notifications, row.user,
                              "answer_vote", u, row.question, a, NoUrl)
                     ELSE notifications
                /\ answers' = Save(answers, a, Upvoted(row))
           ELSE /\ notifications' = notifications
                /\ answers' = Save(answers, a, Downvoted(row))
        /\ last' = Response("vote_answer", u, a, None, vt, 200, "")
        /\ UNCHANGED <<questions, bookmarks, community, flight>>

\* Answer.objects.filter(question=q, is_accepted=True).update(is_accepted=False)
ClearAccepted_none(as, q) == as

ClearAccepted(as, q) ==
    [i \in 1..Len(as) |->
        IF as[i].live /\ as[i].question = q /\ as[i].is_accepted
        THEN [as[i] EXCEPT !.is_accepted = FALSE]
        ELSE as[i]]

\* POST /answers/{id}/accept/
accept_answer(u, a) ==
    IF ~Exists(answers, a)
    THEN Reply("accept_answer", u, a, None, "", 404, "")
    ELSE IF questions[answers[a].question].user # u
    THEN Reply("accept_answer", u, a, None, "", 403, "")
    ELSE
        LET row == answers[a] IN
        /\ answers' = Save(ClearAccepted(answers, row.question), a,
                           [row EXCEPT !.is_accepted = TRUE])
        /\ notifications' = create_notification(notifications, row.user,
                                "answer_accepted", u, row.question, a, NoUrl)
        /\ last' = Response("accept_answer", u, a, None, "", 200, "")
        /\ UNCHANGED <<questions, bookmarks, community, flight>>

\* ------------------------------------------------ question edit and delete
\* if title: question.title = title
Assigned(old, new) == IF new # "" THEN new ELSE old

\* PUT /questions/{id}/
question_detail_put(u, q, title, description) ==
    IF ~Exists(questions, q)
    THEN Reply("question_detail_put", u, q, None, title, 404, "")
    ELSE IF questions[q].user # u
    THEN Reply("question_detail_put", u, q, None, title, 403, "")
    ELSE
        /\ questions' =
             Save(questions, q,
                  [questions[q] EXCEPT
                      !.title = Assigned(@, title),
                      !.description = Assigned(@, description)])
        /\ last' = Response("question_detail_put", u, q, None, title, 200, "")
        /\ UNCHANGED <<answers, bookmarks, notifications, community, flight>>

\* on_delete=CASCADE of the question foreign keys of Answer and
\* CommunityQuestion
CascadeQuestion(table, q) ==
    [i \in 1..Len(table) |->
        IF table[i].live /\ table[i].question = q THEN Tomb ELSE table[i]]

\* on_delete=CASCADE of Notification.related_question, and of
\* Notification.related_answer for the answers that go with the question
CascadeNotifications(ns, as, q) ==
    [i \in 1..Len(ns) |->
        IF /\ ns[i].live
           /\ \/ ns[i].related_question = q
              \/ /\ ns[i].related_answer # None
                 /\ Exists(as, ns[i].related_answer)
                 /\ as[ns[i].related_answer].question = q
        THEN Tomb ELSE ns[i]]

\* on_delete=CASCADE of Bookmark.question
CascadeBookmarks(bs, q) ==
    [p \in {x \in DOMAIN bs : x[2] # q} |-> bs[p]]

\* DELETE /questions/{id}/
question_detail_delete(u, q) ==
    IF ~Exists(questions, q)
    THEN Reply("question_detail_delete", u, q, None, "", 404, "")
    ELSE IF questions[q].user # u
    THEN Reply("question_detail_delete", u, q, None, "", 403, "")
    ELSE
        /\ questions' = Delete(questions, q)
        /\ answers' = CascadeQuestion(answers, q)
        /\ bookmarks' = CascadeBookmarks(bookmarks, q)
        /\ notifications' = CascadeNotifications(notifications, answers, q)
        /\ community_questions' = CascadeQuestion(community_questions, q)
        /\ last' = Response("question_detail_delete", u, q, None, "", 200, "")
        /\ UNCHANGED <<communities, memberships, messages, likes, now, flight>>

\* --------------------------------------------------- notification handlers
\* Notification.objects.get(id=notification_id, recipient=request.user)
NotificationOf(ns, u, n) == Exists(ns, n) /\ ns[n].recipient = u

\* Notification.mark_as_read
MarkedRead(row) == [row EXCEPT !.is_read = TRUE]

\* POST /notifications/{id}/read/
mark_notification_read(u, n) ==
    IF ~NotificationOf(notifications, u, n)
    THEN Reply("mark_notification_read", u, n, None, "", 404, "")
    ELSE
        /\ notifications' = Save(notifications, n, MarkedRead(notifications[n]))
        /\ last' = Response("mark_notification_read", u, n, None, "", 200, "")
        /\ UNCHANGED <<content, community, flight>>

\* POST /notifications/mark-all-read/
mark_all_notifications_read(u) ==
    /\ notifications' =
         [i \in 1..Len(notifications) |->
             IF /\ NotificationOf(notifications, u, i)
                /\ ~notifications[i].is_read
             THEN MarkedRead(notifications[i])
             ELSE notifications[i]]
    /\ last' = Response("mark_all_notifications_read", u, None, None, "",
                        200, "")
    /\ UNCHANGED <<content, community, flight>>

\* DELETE /notifications/{id}/delete/
delete_notification(u, n) ==
    IF ~NotificationOf(notifications, u, n)
    THEN Reply("delete_notification", u, n, None, "", 404, "")
    ELSE
        /\ notifications' = Delete(notifications, n)
        /\ last' = Response("delete_notification", u, n, None, "", 200, "")
        /\ UNCHANGED <<content, community, flight>>

\* ------------------------------------------------------------------ search
\* The smaller and the larger of two integers.
Min(a, b) == IF a < b THEN a ELSE b

Max(a, b) == IF a > b THEN a ELSE b

\* order_by('-upvotes', '-created_at'): question i comes before question j.
Before(qs, i, j) ==
    \/ qs[i].upvotes > qs[j].upvotes
    \/ qs[i].upvotes = qs[j].upvotes /\ i > j

\* The questions of the set S in that order.
RECURSIVE Sorted(_, _)
Sorted(qs, S) ==
    IF S = {} THEN <<>>
    ELSE LET first == CHOOSE i \in S : \A j \in S \ {i} : Before(qs, i, j)
         IN  <<first>> \o Sorted(qs, S \ {first})

\* icontains on the title or the description
Contains(row, query) == row.title = query \/ row.description = query

\* The filters of the search: q, when the request carries one, and user_id,
\* when it names a user.
Matching(qs, query, user_id) ==
    {i \in LiveIds(qs) :
        /\ query = "" \/ Contains(qs[i], query)
        /\ user_id = None \/ qs[i].user = user_id}

\* order_by('-created_at')
Newest(S) ==
    [k \in 1..Cardinality(S) |->
        CHOOSE i \in S : Cardinality({j \in S : j > i}) = k - 1]

\* queryset[start:stop] with start and stop not negative
Slice(s, start, stop) ==
    SubSeq(s, Min(start, Len(s)) + 1, Min(Max(start, stop), Len(s)))

SortOrders == {"relevance", "newest"}

\* The relevance column is selected with ILIKE, which the SQL of the
\* sqlite3 backend of settings.DATABASES does not have: evaluating the
\* queryset raises.
RelevanceRaises(query, sort_by) == sort_by = "relevance" /\ query # ""

\* GET /search/questions/?q=&user_id=&sort_by=&limit=&offset= ; a negative
\* index raises in the slice; the except clause answers 500.
search_questions(query, user_id, sort_by, lim, offset) ==
    LET limit == Min(lim, 100)
        S == Matching(questions, query, user_id)
        found == IF sort_by = "newest" THEN Newest(S) ELSE Sorted(questions, S)
        total_count == Len(found)
        request == [q |-> query, user_id |-> user_id, sort_by |-> sort_by]
    IN  IF offset < 0 \/ offset + limit < 0 \/ RelevanceRaises(query, sort_by)
        THEN Reply("search_questions", None, lim, offset, request, 500, "")
        ELSE LET page == Slice(found, offset, offset + limit) IN
             Reply("search_questions", None, lim, offset, request, 200,
                   [data |-> page,
                    total_count |-> total_count,
                    returned_count |-> Len(page),
                    offset |-> offset,
                    limit |-> limit,
                    has_more |-> offset + limit < total_count])

\* ---------------------------------------------------------------- trending
\* A question with the columns the trending endpoints read: its tag list
\* and the day of its creation (auto_now_add).
Asked(u, tags, t) ==
    Question(u, "title", "text") @@ [tags |-> tags, created_at |-> t]

\* Question.objects.filter(created_at__gte=since_date), since_date being
\* timezone.now() - timedelta(days=days)
Recent_all(table, today, days) == LiveIds(table)

Recent(table, today, days) ==
    {i \in LiveIds(table) : table[i].created_at >= today - days}

\* The orders in which a queryset without order_by may yield the rows of S.
Orders(S) ==
    {o \in [1..Cardinality(S) -> S] :
        \A i, j \in 1..Cardinality(S) : o[i] = o[j] => i = j}

\* tag_counts[tag] = tag_counts.get(tag, 0) + 1 ; a dict keeps its keys in
\* the order of their insertion.
Bump(counts, tag) ==
    IF \E k \in 1..Len(counts) : counts[k][1] = tag
    THEN [k \in 1..Len(counts) |->
             IF counts[k][1] = tag
             THEN <<tag, counts[k][2] + 1>> ELSE counts[k]]
    ELSE Append(counts, <<tag, 1>>)

\* for tag in tags: if tag.strip(): ...
RECURSIVE CountTags(_, _)
CountTags(counts, tags) ==
    IF tags = <<>> THEN counts
    ELSE CountTags(IF Blank(Head(tags)) THEN counts
                   ELSE Bump(counts, Head(tags)),
                   Tail(tags))

\* for question in recent_questions: ...
RECURSIVE CountQuestions(_, _, _)
CountQuestions(counts, table, order) ==
    IF order = <<>> THEN counts
    ELSE CountQuestions(CountTags(counts, table[Head(order)].tags),
                        table, Tail(order))

\* The sequence s without its k-th element.
Without(s, k) == SubSeq(s, 1, k - 1) \o SubSeq(s, k + 1, Len(s))

\* sorted(items, key=lambda x: x[1], reverse=True): a stable sort, items of
\* equal count keep their order.
RECURSIVE ByCount(_)
ByCount(items) ==
    IF items = <<>> THEN <<>>
    ELSE LET k == CHOOSE k \in 1..Len(items) :
                     /\ \A j \in 1..Len(items) : items[j][2] <= items[k][2]
                     /\ \A j \in 1..(k - 1) : items[j][2] < items[k][2]
         IN  <<items[k]>> \o ByCount(Without(items, k))

\* s[:limit] of Python: the first limit items, all but the last -limit
\* when limit is negative.
Truncated(s, limit) ==
    SubSeq(s, 1, IF limit >= 0 THEN Min(limit, Len(s))
                 ELSE Max(0, Len(s) + limit))

\* GET /trending/tags/?days=&limit=
trending_tags(days, lim) ==
    \E order \in Orders(Recent(questions, now, days)) :
        Reply("trending_tags", None, days, lim, "", 200,
              Truncated(ByCount(CountQuestions(<<>>, questions, order)),
                        Min(lim, 50)))

\* An answer with the day of its creation (auto_now_add).
Replied(u, q, t) == Answer(u, q, "text") @@ [created_at |-> t]

\* The rows of user u in a table, or the one NULL of a LEFT OUTER JOIN when
\* the user has none.
Joined(table, u) ==
    LET own == {i \in LiveIds(table) : table[i].user = u}
    IN  IF own = {} THEN {None} ELSE own

\* CustomUser LEFT OUTER JOIN Question LEFT OUTER JOIN Answer: the rows of
\* the join for user u, over which every Count of the annotation runs.
JoinRows(u) ==
    {<<q, a>> : q \in Joined(questions, u), a \in Joined(answers, u)}

\* Count(relation, filter=Q(created_at__gte=since_date)): the rows of the
\* join whose column k is a row of the table created since then.
CountRecent(rows, k, table, since) ==
    Cardinality({r \in rows : r[k] # None /\ table[r[k]].created_at >= since})

\* Count('question__upvotes'), Count('answer__upvotes'): the rows of the
\* join whose column k is not NULL.
CountColumn(rows, k) == Cardinality({r \in rows : r[k] # None})

\* The annotations of user u.
Scored(u, since) ==
    LET rows == JoinRows(u)
        recent_questions == CountRecent(rows, 1, questions, since)
        recent_answers == CountRecent(rows, 2, answers, since)
    IN  [id |-> u,
         recent_questions |-> recent_questions,
         recent_answers |-> recent_answers,
         activity_score |-> recent_questions * 5 + recent_answers * 3 +
                            CountColumn(rows, 1) * 2 + CountColumn(rows, 2) * 1]

\* order_by('-activity_score'): the orders of the users of S the database
\* may answer with.
ByScore(S, since) ==
    {o \in Orders(S) :
        \A k \in 2..Len(o) : Scored(o[k - 1], since).activity_score >=
                              Scored(o[k], since).activity_score}

\* GET /trending/users/?days=&limit= ; a negative limit raises in the slice
\* and the except clause answers 500.
trending_users(days, lim) ==
    LET limit == Min(lim, 20)
        since == now - days
        S == {u \in Users : Scored(u, since).activity_score > 0}
    IN  IF limit < 0
        THEN Reply("trending_users", None, days, lim, "", 500, "")
        ELSE \E o \in ByScore(S, since) :
                Reply("trending_users", None, days, lim, "", 200,
                      [k \in 1..Min(limit, Len(o)) |-> Scored(o[k], since)])

\* ------------------------------------------------------ community rows
Community(creator) == [live |-> TRUE, creator |-> creator]

Membership(c, u, role, status, requested_at, approved_at, approved_by) ==
    [live |-> TRUE, community |-> c, user |-> u, role |-> role,
     status |-> status, requested_at |-> requested_at,
     approved_at |-> approved_at, approved_by |-> approved_by]

Message(c, author, parent, mtype) ==
    [live |-> TRUE, community |-> c, author |-> author,
     parent_message |-> parent, message_type |-> mtype]

CommunityQuestion(q, c) == [live |-> TRUE, question |-> q, community |-> c]

\* CommunityMembership.objects.filter(community=c, user=u)
MembershipsOf(ms, c, u) ==
    {i \in LiveIds(ms) : ms[i].community = c /\ ms[i].user = u}

\* unique_together = ('community', 'user'): the INSERT of a second row of a
\* pair fails with an IntegrityError.
Unique_unchecked(ms, row) == TRUE

Unique(ms, row) == MembershipsOf(ms, row.community, row.user) = {}

\* Community.is_admin
is_admin_anyone(ms, c, u) == TRUE

is_admin(ms, c, u) == \E i \in MembershipsOf(ms, c, u) : ms[i].role = "admin"

\* Community.is_member
is_member_any_status(ms, c, u) == MembershipsOf(ms, c, u) # {}

is_member(ms, c, u) ==
    \E i \in MembershipsOf(ms, c, u) : ms[i].status = "approved"

\* Meta.ordering = ['-requested_at']: the ids of S, latest request first.
RECURSIVE Ordered(_, _)
Ordered(ms, S) ==
    IF S = {} THEN <<>>
    ELSE LET i == CHOOSE i \in S : \A j \in S :
                      \/ ms[i].requested_at > ms[j].requested_at
                      \/ ms[i].requested_at = ms[j].requested_at /\ i <= j
         IN  <<i>> \o Ordered(ms, S \ {i})

\* for membership in <queryset>: Notification.create_notification(
\*     recipient=membership.user, sender=request.user, action_url=...)
RECURSIVE notify_each(_, _, _, _, _, _)
notify_each(ns, ms, ids, ntype, sender, url) ==
    IF ids = <<>> THEN ns
    ELSE notify_each(
             create_notification(ns, ms[Head(ids)].user, ntype, sender,
                                 None, None, url),
             ms, Tail(ids), ntype, sender, url)

\* filter(community=c, role='admin', status='approved')
ApprovedAdmins_none(ms, c) == {}

ApprovedAdmins(ms, c) ==
    {i \in LiveIds(ms) : /\ ms[i].community = c
                         /\ ms[i].role = "admin"
                         /\ ms[i].status = "approved"}

\* filter(community=c, status='approved').exclude(user=u)
ApprovedOthers_any_status(ms, c, u) ==
    {i \in LiveIds(ms) : ms[i].community = c /\ ms[i].user # u}

ApprovedOthers(ms, c, u) ==
    {i \in LiveIds(ms) : /\ ms[i].community = c
                         /\ ms[i].status = "approved"
                         /\ ms[i].user # u}

\* ---------------------------------------------------- membership handlers
\* POST /communities/ : CommunityListCreate.perform_create
perform_create(u) ==
    /\ communities' = Create(communities, Community(u))
    /\ memberships' = Create(memberships,
           Membership(Len(communities) + 1, u, "admin", "approved", now, now, u))
    /\ now' = now + 1
    /\ last' = Response("perform_create", u, Len(communities) + 1, None, "",
                        201, "")
    /\ UNCHANGED <<content, notifications, messages, likes, community_questions,
                   flight>>

\* existing_membership.status = 'pending'; requested_at = timezone.now()
Rerequested(row, t) == [row EXCEPT !.status = "pending", !.requested_at = t]

\* The write of JoinCommunity.post: the declined row reset, or a new row.
JoinWrite_always_new(ms, existing, c, u, t) ==
    Create(ms, Membership(c, u, "member", "pending", t, None, None))

JoinWrite(ms, existing, c, u, t) ==
    IF existing # {}
    THEN LET i == Head(Ordered(ms, existing)) IN
         Save(ms, i, Rerequested(ms[i], t))
    ELSE Create(ms, Membership(c, u, "member", "pending", t, None, None))

\* POST /communities/{pk}/join/
JoinCommunity_post(u, pk) ==
    IF ~Exists(communities, pk)
    THEN Reply("JoinCommunity_post", u, pk, None, "", 404, "")
    ELSE
        LET existing == MembershipsOf(memberships, pk, u)
            first == Head(Ordered(memberships, existing))
        IN
        IF existing # {} /\ memberships[first].status = "approved"
        THEN Reply("JoinCommunity_post", u, pk, None, "", 400, "already_member")
        ELSE IF existing # {} /\ memberships[first].status = "pending"
        THEN Reply("JoinCommunity_post", u, pk, None, "", 400, "pending")
        ELSE
            /\ memberships' = JoinWrite(memberships, existing, pk, u, now)
            /\ now' = now + 1
            /\ notifications' =
                 notify_each(notifications, memberships',
                     Ordered(memberships', ApprovedAdmins(memberships', pk)),
                     "community_join_request", u, <<"communities", pk, "admin">>)
            /\ last' = Response("JoinCommunity_post", u, pk, None, "", 200,
                                "request_sent")
            /\ UNCHANGED <<content, communities, messages, likes,
                           community_questions, flight>>

\* community.creator == request.user
IsCreator_never(cs, pk, u) == FALSE

IsCreator(cs, pk, u) == cs[pk].creator = u

\* POST /communities/{pk}/leave/
LeaveCommunity_post(u, pk) ==
    IF ~Exists(communities, pk)
    THEN Reply("LeaveCommunity_post", u, pk, None, "", 404, "")
    ELSE IF IsCreator(communities, pk, u)
    THEN Reply("LeaveCommunity_post", u, pk, None, "", 400,
               "creator_cannot_leave")
    ELSE IF MembershipsOf(memberships, pk, u) = {}
    THEN Reply("LeaveCommunity_post", u, pk, None, "", 400, "not_member")
    ELSE
        /\ memberships' = Delete(memberships,
               Head(Ordered(memberships, MembershipsOf(memberships, pk, u))))
        /\ last' = Response("LeaveCommunity_post", u, pk, None, "", 200, "")
        /\ UNCHANGED <<content, notifications, communities, messages, likes,
                       community_questions, now, flight>>

\* get_object_or_404(CommunityMembership, id=membership_id, community=community)
MembershipIn(ms, c, mid) == Exists(ms, mid) /\ ms[mid].community = c

\* if membership.status != 'pending'
NotPending_never(row) == FALSE

NotPending(row) == row.status # "pending"

\* membership.status = ...; approved_at = timezone.now(); approved_by = request.user
Decided_unstamped(row, status, u, t) == [row EXCEPT !.status = status]

Decided(row, status, u, t) ==
    [row EXCEPT !.status = status, !.approved_at = t, !.approved_by = u]

\* approve_join_request / decline_join_request, which differ in the status
\* set and the notification type; an Http404 raised inside their try block
\* is answered by the except clause with a 500.
decide_join_request(op, status, ntype, u, pk, mid) ==
    IF ~Exists(communities, pk)
    THEN Reply(op, u, pk, mid, "", 500, "")
    ELSE IF ~is_admin(memberships, pk, u)
    THEN Reply(op, u, pk, mid, "", 403, "")
    ELSE IF ~MembershipIn(memberships, pk, mid)
    THEN Reply(op, u, pk, mid, "", 500, "")
    ELSE IF NotPending(memberships[mid])
    THEN Reply(op, u, pk, mid, "", 400, "")
    ELSE
        /\ memberships' = Save(memberships, mid,
                               Decided(memberships[mid], status, u, now))
        /\ now' = now + 1
        /\ notifications' =
             create_notification(notifications, memberships[mid].user, ntype,
                                 u, None, None, <<"communities", pk>>)
        /\ last' = Response(op, u, pk, mid, "", 200, "")
        /\ UNCHANGED <<content, communities, messages, likes, community_questions,
                       flight>>

\* POST /communities/{pk}/admin/join-requests/{membership_id}/approve/
approve_join_request(u, pk, mid) ==
    decide_join_request("approve_join_request", "approved",
                        "community_request_approved", u, pk, mid)

\* POST /communities/{pk}/admin/join-requests/{membership_id}/decline/
decline_join_request(u, pk, mid) ==
    decide_join_request("decline_join_request", "declined",
                        "community_request_declined", u, pk, mid)

\* --------------------------------------------------- community post handlers
\* get_object_or_404(CommunityMessage, id=message_id, community=community)
MessageIn(msgs, c, mid) == Exists(msgs, mid) /\ msgs[mid].community = c

\* POST /communities/{pk}/messages/{message_id}/reply/
reply_to_message(u, pk, mid, c) ==
    IF ~Exists(communities, pk) \/ ~MessageIn(messages, pk, mid)
    THEN Reply("reply_to_message", u, pk, mid, c, 404, "")
    ELSE IF ~is_member(memberships, pk, u)
    THEN Reply("reply_to_message", u, pk, mid, c, 403, "")
    ELSE IF Blank(c)
    THEN Reply("reply_to_message", u, pk, mid, c, 400, "")
    ELSE
        /\ messages' = Create(messages, Message(pk, u, mid, "message"))
        /\ notifications' =
             notify_each(notifications, memberships,
                 Ordered(memberships, ApprovedOthers(memberships, pk, u)),
                 "community_post", u, <<"communities", pk, "messages">>)
        /\ last' = Response("reply_to_message", u, pk, mid, c, 201, "")
        /\ UNCHANGED <<content, communities, memberships, likes,
                       community_questions, now, flight>>

\* POST /communities/{pk}/ask/
ask_community_question(u, pk, title, c) ==
    IF ~Exists(communities, pk)
    THEN Reply("ask_community_question", u, pk, None, title, 404, "")
    ELSE IF ~is_member(memberships, pk, u)
    THEN Reply("ask_community_question", u, pk, None, title, 403, "")
    ELSE IF title = "" \/ c = ""
    THEN Reply("ask_community_question", u, pk, None, title, 400, "")
    ELSE
        /\ questions' = Create(questions, Question(u, title, c))
        /\ community_questions' =
             Create(community_questions,
                    CommunityQuestion(Len(questions) + 1, pk))
        /\ messages' = Create(messages, Message(pk, u, None, "question"))
        /\ notifications' =
             notify_each(notifications, memberships,
                 Ordered(memberships, ApprovedOthers(memberships, pk, u)),
                 "community_post", u, <<"communities", pk, "messages">>)
        /\ last' = Response("ask_community_question", u, pk,
                            Len(questions) + 1, title, 201, "")
        /\ UNCHANGED <<answers, bookmarks, communities, memberships, likes,
                       now, flight>>

\* CommunityMessageCreateSerializer.is_valid: content is required and is
\* trimmed, message_type is one of the choices, parent_message is null or
\* the key of a message, a question has a title (trimmed as well).
MessageTypes == {"message", "question", "announcement"}

ValidMessage(msgs, mtype, c, parent, title) ==
    /\ ~Blank(c)
    /\ mtype \in MessageTypes
    /\ parent = None \/ Exists(msgs, parent)
    /\ mtype = "question" => ~Blank(title)

\* POST /communities/{pk}/messages/
community_messages_post(u, pk, mtype, c, parent, title) ==
    IF ~Exists(communities, pk)
    THEN Reply("community_messages", u, pk, None, mtype, 404, "")
    ELSE IF ~is_member(memberships, pk, u)
    THEN Reply("community_messages", u, pk, None, mtype, 403, "")
    ELSE IF ~ValidMessage(messages, mtype, c, parent, title)
    THEN Reply("community_messages", u, pk, None, mtype, 400, "")
    ELSE
        /\ messages' = Create(messages, Message(pk, u, parent, mtype))
        /\ IF mtype = "question"
           THEN /\ questions' = Create(questions, Question(u, title, c))
                /\ community_questions' =
                     Create(community_questions,
                            CommunityQuestion(Len(questions) + 1, pk))
           ELSE UNCHANGED <<questions, community_questions>>
        /\ last' = Response("community_messages", u, pk, Len(messages) + 1,
                            mtype, 201, "")
        /\ UNCHANGED <<answers, bookmarks, notifications, communities,
                       memberships, likes, now, flight>>

\* POST /communities/{pk}/messages/{message_id}/like/
like_message(u, pk, mid) ==
    IF ~Exists(communities, pk) \/ ~MessageIn(messages, pk, mid)
    THEN Reply("like_message", u, pk, mid, "", 404, "")
    ELSE IF ~is_member(memberships, pk, u)
    THEN Reply("like_message", u, pk, mid, "", 403, "")
    ELSE
        /\ likes' = IF <<u, mid>> \in likes
                    THEN likes \ {<<u, mid>>}
                    ELSE likes \cup {<<u, mid>>}
        /\ last' = Response("like_message", u, pk, mid, "", 200,
                            IF <<u, mid>> \in likes THEN "unliked" ELSE "liked")
        /\ UNCHANGED <<content, notifications, communities, memberships,
                       messages, community_questions, now, flight>>

\* CommunityQuestion.objects.filter(community=community, question=question)
Linked(cqs, c, q) ==
    \E i \in LiveIds(cqs) : cqs[i].community = c /\ cqs[i].question = q

\* POST /communities/{pk}/questions/add/ with question_id q (None when the
\* body has none)
AddQuestionToCommunity_post(u, pk, q) ==
    IF ~Exists(communities, pk)
    THEN Reply("AddQuestionToCommunity_post", u, pk, q, "", 404, "")
    ELSE IF ~is_member(memberships, pk, u)
    THEN Reply("AddQuestionToCommunity_post", u, pk, q, "", 403, "")
    ELSE IF q = None
    THEN Reply("AddQuestionToCommunity_post", u, pk, q, "", 400, "")
    ELSE IF ~Exists(questions, q)
    THEN Reply("AddQuestionToCommunity_post", u, pk, q, "", 404, "")
    ELSE IF Linked(community_questions, pk, q)
    THEN Reply("AddQuestionToCommunity_post", u, pk, q, "", 400, "")
    ELSE
        /\ community_questions' =
             Create(community_questions, CommunityQuestion(q, pk))
        /\ last' = Response("AddQuestionToCommunity_post", u, pk, q, "",
                            201, "")
        /\ UNCHANGED <<content, notifications, communities, memberships,
                       messages, likes, now, flight>>

\* on_delete=CASCADE of the community foreign keys
CascadeCommunity_kept(table, c) == table

CascadeCommunity(table, c) ==
    [i \in 1..Len(table) |->
        IF table[i].live /\ table[i].community = c THEN Tomb ELSE table[i]]

\* on_delete=CASCADE of CommunityMessage.parent_message: the messages of
\* the set gone and their replies, and the replies to those.
RECURSIVE WithReplies(_, _)
WithReplies(msgs, gone) ==
    LET more == {i \in LiveIds(msgs) : msgs[i].parent_message \in gone} \ gone
    IN  IF more = {} THEN gone ELSE WithReplies(msgs, gone \cup more)

CascadeMessages(msgs, c) ==
    LET gone == WithReplies(msgs, {i \in LiveIds(msgs) : msgs[i].community = c})
    IN  [i \in 1..Len(msgs) |-> IF i \in gone THEN Tomb ELSE msgs[i]]

\* on_delete=CASCADE of CommunityMessageLike.message
CascadeLikes(ls, msgs) == {l \in ls : Exists(msgs, l[2])}

\* DELETE /communities/{pk}/delete/ ; an Http404 raised inside its try block
\* is answered by the except clause with a 500.
delete_community(u, pk) ==
    IF ~Exists(communities, pk)
    THEN Reply("delete_community", u, pk, None, "", 500, "")
    ELSE IF ~is_admin(memberships, pk, u) /\ communities[pk].creator # u
    THEN Reply("delete_community", u, pk, None, "", 403, "")
    ELSE
        /\ notifications' =
             notify_each(notifications, memberships,
                 Ordered(memberships, ApprovedOthers(memberships, pk, u)),
                 "system", u, <<"communities">>)
        /\ communities' = Delete(communities, pk)
        /\ memberships' = CascadeCommunity(memberships, pk)
        /\ messages' = CascadeMessages(messages, pk)
        /\ likes' = CascadeLikes(likes, messages')
        /\ community_questions' = CascadeCommunity(community_questions, pk)
        /\ last' = Response("delete_community", u, pk, None, "", 200, "")
        /\ UNCHANGED <<content, now, flight>>

\* ------------------------------------------------------------ model bounds
\* Guards of the specifications: the tables and counters stay within bounds.
RoomQ == Len(questions) < MaxQuestions
RoomA == Len(answers) < MaxAnswers
RoomN == Len(notifications) < MaxNotifs
RoomM == Len(memberships) < MaxMemberships
RoomT == now < MaxTime
RoomL == Cardinality(likes) < MaxLikes
RoomC == Len(communities) < MaxCommunities
RoomStamp == now + 2 < MaxTime
RoomLinks == Len(community_questions) < MaxLinks
RoomPosts == Len(messages) < MaxPosts
RECURSIVE VotesCast(_)
VotesCast(table) ==
    IF table = <<>> THEN 0
    ELSE VotesCast(Tail(table)) +
         (IF Head(table).live
          THEN Head(table).upvotes + Head(table).downvotes ELSE 0)
RoomVotes == VotesCast(questions) + VotesCast(answers) < MaxVotes
\* The accepts that have been notified.
Accepts ==
    Cardinality({i \in LiveIds(notifications) :
                    notifications[i].notification_type = "answer_accepted"})
\* What the requests so far have added to the database: the rows posted,
\* the votes cast, the accepts notified and the time stamps taken.
Activity ==
    Len(questions) + Len(answers) + Len(messages) +
    VotesCast(questions) + VotesCast(answers) + Accepts + now
RoomActivity == Activity < MaxActivity

\* ------------------------------------------- accepting answers, one at a time
\* The database after two questions have been asked, by any users.
InitAccept ==
    \E o1 \in Users, o2 \in Users :
        /\ questions = Create(Create(<<>>, Question(o1, "title", "text")), Question(o2, "title", "text"))
        /\ answers = <<>>
        /\ bookmarks = NoBookmarks
        /\ notifications = <<>>
        /\ communities = <<>>
        /\ memberships = <<>>
        /\ messages = <<>>
        /\ likes = {}
        /\ community_questions = <<>>
        /\ now = 1
        /\ reqs = <<>>
        /\ started = 0
        /\ last = Response("questions_list_create", o2, 2, None, "title", 201, "")

NextAccept ==
    \/ \E u \in Users, q \in Ids(questions), c \in AnswerContents :
          RoomA /\ RoomN /\ question_answers(u, q, c)
    \/ \E u \in Users, a \in Ids(answers) : RoomN /\ accept_answer(u, a)

SpecAccept == InitAccept /\ [][NextAccept]_vars

\* ----------------------------------------------------- voting, one at a time
\* The database after one question has been asked and answered once, by any
\* two users (the same one included): questions_list_create, then
\* question_answers.
InitVote ==
    \E qo \in Users, ao \in Users :
        /\ questions = Create(<<>>, Question(qo, "title", "text"))
        /\ answers = Create(<<>>, Answer(ao, 1, "text"))
        /\ bookmarks = NoBookmarks
        /\ notifications =
             IF qo # ao
             THEN create_notification(<<>>, qo, "answer", ao, 1, 1, NoUrl)
             ELSE <<>>
        /\ communities = <<>>
        /\ memberships = <<>>
        /\ messages = <<>>
        /\ likes = {}
        /\ community_questions = <<>>
        /\ now = 1
        /\ reqs = <<>>
        /\ started = 0
        /\ last = Response("question_answers", ao, 1, 1, "text", 201, "")

NextVote ==
    \/ \E u \in Users, q \in Ids(questions), vt \in VoteTypes :
          RoomVotes /\ vote_question(u, q, vt)
    \/ \E u \in Users, a \in Ids(answers), vt \in VoteTypes :
          RoomVotes /\ vote_answer(u, a, vt)

SpecVote == InitVote /\ [][NextVote]_vars

\* --------------------------------------------------------------- bookmarks
NextBookmark ==
    \/ \E u \in Users, t \in Titles :
          RoomQ /\ questions_list_create(u, t, "text")
    \/ \E u \in Users, q \in Ids(questions) : bookmark_question(u, q)

SpecBookmark == Init /\ [][NextBookmark]_vars

\* ------------------------------------------- memberships, one at a time
\* The database after users 1 and 2 have each created a community:
\* perform_create twice.
InitCommunity ==
    LET c1 == 1
        c2 == 2
    IN
        /\ questions = <<>>
        /\ answers = <<>>
        /\ bookmarks = NoBookmarks
        /\ notifications = <<>>
        /\ communities = Create(Create(<<>>, Community(c1)), Community(c2))
        /\ memberships =
             Create(Create(<<>>,
                 Membership(1, c1, "admin", "approved", 1, 1, c1)),
                 Membership(2, c2, "admin", "approved", 2, 2, c2))
        /\ messages = <<>>
        /\ likes = {}
        /\ community_questions = <<>>
        /\ now = 3
        /\ reqs = <<>>
        /\ started = 0
        /\ last = Response("perform_create", c2, 2, None, "", 201, "")

NextCommunity ==
    \/ \E u \in Users, pk \in Ids(communities) :
          RoomM /\ RoomT /\ JoinCommunity_post(u, pk)
    \/ \E u \in Users, pk \in Ids(communities) : LeaveCommunity_post(u, pk)
    \/ \E u \in Users, pk \in Ids(communities), mid \in Ids(memberships) :
          RoomT /\ approve_join_request(u, pk, mid)
    \/ \E u \in Users, pk \in Ids(communities), mid \in Ids(memberships) :
          RoomT /\ decline_join_request(u, pk, mid)

SpecCommunity == InitCommunity /\ [][NextCommunity]_vars

\* ------------------------------------------------ every notifying handler
\* The database after user 1 has asked a question, any user has answered it,
\* users 1 and 2 have each created a community, user 2 has joined the
\* community of user 1 and been approved, and user 1 has posted a message
\* there.
InitNotify ==
    LET qo == 1 IN
    \E ao \in Users :
        /\ questions = Create(<<>>, Question(qo, "title", "text"))
        /\ answers = Create(<<>>, Answer(ao, 1, "text"))
        /\ bookmarks = NoBookmarks
        /\ notifications =
             create_notification(
                 create_notification(
                     IF qo # ao
                     THEN create_notification(<<>>, qo, "answer", ao, 1, 1, NoUrl)
                     ELSE <<>>,
                     1, "community_join_request", 2, None, None,
                     <<"communities", 1, "admin">>),
                 2, "community_request_approved", 1, None, None,
                 <<"communities", 1>>)
        /\ communities = Create(Create(<<>>, Community(1)), Community(2))
        /\ memberships =
             Create(Create(Create(<<>>,
                 Membership(1, 1, "admin", "approved", 1, 1, 1)),
                 Membership(2, 2, "admin", "approved", 2, 2, 2)),
                 Decided(Membership(1, 2, "member", "pending", 3, None, None),
                         "approved", 1, 4))
        /\ messages = Create(<<>>, Message(1, 1, None, "message"))
        /\ likes = {}
        /\ community_questions = <<>>
        /\ now = 5
        /\ reqs = <<>>
        /\ started = 0
        /\ last = Response("community_messages", 1, 1, 1, "text", 201, "")

NextNotify ==
    \/ \E u \in Users, q \in LiveIds(questions) :
          RoomActivity /\ vote_question(u, q, "upvote")
    \/ \E u \in Users, a \in LiveIds(answers) :
          RoomActivity /\ vote_answer(u, a, "upvote")
    \/ \E u \in Users, q \in LiveIds(questions) :
          RoomActivity /\ question_answers(u, q, "text")
    \/ \E u \in Users, a \in LiveIds(answers) :
          RoomActivity /\ accept_answer(u, a)
    \/ \E u \in Users, pk \in LiveIds(communities) :
          RoomActivity /\ JoinCommunity_post(u, pk)
    \/ \E u \in Users, pk \in LiveIds(communities), mid \in LiveIds(memberships) :
          RoomActivity /\ approve_join_request(u, pk, mid)
    \/ \E u \in Users, pk \in LiveIds(communities), mid \in LiveIds(memberships) :
          RoomActivity /\ decline_join_request(u, pk, mid)
    \/ \E u \in Users, pk \in LiveIds(communities), mid \in LiveIds(messages) :
          RoomActivity /\ reply_to_message(u, pk, mid, "text")
    \/ \E u \in Users, pk \in LiveIds(communities) :
          RoomActivity /\ ask_community_question(u, pk, "title", "text")
    \/ \E u \in Users, pk \in LiveIds(communities) :
          RoomActivity /\ delete_community(u, pk)

SpecNotify == InitNotify /\ [][NextNotify]_vars

\* ------------------------------------------------------ community messages
\* Messages and replies posted in the communities of InitNotify.
NextMessages ==
    \/ \E u \in Users, pk \in LiveIds(communities),
          mtype \in {"message", "question", "poll"},
          parent \in {None} \cup Ids(messages), title \in Titles :
          RoomActivity /\
          community_messages_post(u, pk, mtype, "text", parent, title)
    \/ \E u \in Users, pk \in LiveIds(communities), mid \in LiveIds(messages),
          c \in AnswerContents :
          RoomActivity /\ reply_to_message(u, pk, mid, c)

SpecMessages == InitNotify /\ [][NextMessages]_vars

\* ------------------------------------------------------ community deletion
\* Likes and questions posted in the communities of InitNotify, join
\* requests, and the deletion of a community.
NextDelete ==
    \/ \E u \in Users, pk \in LiveIds(communities), mid \in LiveIds(messages) :
          RoomL /\ like_message(u, pk, mid)
    \/ \E u \in Users, pk \in LiveIds(communities) :
          RoomActivity /\ ask_community_question(u, pk, "title", "text")
    \/ \E u \in Users, pk \in LiveIds(communities) :
          RoomActivity /\ JoinCommunity_post(u, pk)
    \/ \E u \in Users, pk \in LiveIds(communities) : delete_community(u, pk)

SpecDelete == InitNotify /\ [][NextDelete]_vars

\* ------------------------------------------------------- question texts
\* The titles and descriptions a request may carry: a text, a blank one and
\* an absent or empty one.
Texts == {"text", " ", ""}

\* Questions asked and edited, on the site and in the communities of
\* InitNotify.
NextQuestions ==
    \/ \E u \in Users, t \in Texts, d \in Texts :
          RoomQ /\ questions_list_create(u, t, d)
    \/ \E u \in Users, q \in LiveIds(questions), t \in Texts, d \in Texts :
          question_detail_put(u, q, t, d)
    \/ \E u \in Users, pk \in LiveIds(communities), t \in Texts, d \in Texts :
          RoomQ /\ RoomActivity /\ ask_community_question(u, pk, t, d)
    \/ \E u \in Users, pk \in LiveIds(communities), t \in Texts, d \in Texts :
          RoomQ /\ RoomActivity /\
          community_messages_post(u, pk, "question", d, None, t)

SpecQuestions == InitNotify /\ [][NextQuestions]_vars

\* ---------------------------------------------------------- notifications
\* Votes on the question and the answer of InitVote, the notifications read
\* and deleted, the answer and the question deleted.
NextInbox ==
    \/ \E u \in Users, q \in LiveIds(questions) :
          RoomVotes /\ vote_question(u, q, "upvote")
    \/ \E u \in Users, a \in LiveIds(answers) :
          RoomVotes /\ vote_answer(u, a, "upvote")
    \/ \E u \in Users, n \in Ids(notifications) : mark_notification_read(u, n)
    \/ \E u \in Users : mark_all_notifications_read(u)
    \/ \E u \in Users, n \in Ids(notifications) : delete_notification(u, n)
    \/ \E u \in Users, a \in Ids(answers) : answer_detail_delete(u, a)
    \/ \E u \in Users, q \in Ids(questions) : question_detail_delete(u, q)

SpecInbox == InitVote /\ [][NextInbox]_vars

\* ------------------------------------------------------------------ search
\* The limits and offsets a search may carry.
Limits == {-1, 1, 2, 101}
Offsets == {0, 1, 4}

\* The database after user 1 has asked two questions and user 2 a third,
\* and user 2 has upvoted the first.
InitSearch ==
    /\ questions = Create(Create(Create(<<>>,
                                 Upvoted(Question(1, "title", "text"))),
                                 Question(1, "title", "text")),
                          Question(2, "title", "text"))
    /\ answers = <<>>
    /\ bookmarks = NoBookmarks
    /\ notifications =
         create_notification(<<>>, 1, "question_vote", 2, 1, None, NoUrl)
    /\ communities = <<>>
    /\ memberships = <<>>
    /\ messages = <<>>
    /\ likes = {}
    /\ community_questions = <<>>
    /\ now = 1
    /\ reqs = <<>>
    /\ started = 0
    /\ last = Response("vote_question", 2, 1, None, "upvote", 200, "")

NextSearch ==
    \/ \E u \in Users, q \in LiveIds(questions) : question_detail_delete(u, q)
    \/ \E query \in {"", "title"}, user_id \in {None} \cup Users,
          sort_by \in SortOrders, lim \in Limits, offset \in Offsets :
          search_questions(query, user_id, sort_by, lim, offset)

SpecSearch == InitSearch /\ [][NextSearch]_vars

\* ----------------------------------------------------------- trending tags
\* The tag lists of the questions asked this week, the windows and the
\* limits of the requests. Today is day 10.
TagLists == {<<"a", "b">>, <<"a">>, <<"c">>, <<" ", "c">>}
Days == {7, 10}
TagLimits == {-1, 1, 2, 51}

\* A question asked yesterday with any of the tag lists, or one asked on
\* day 2.
TaggedRows ==
    {Asked(1, tags, 9) : tags \in TagLists} \cup {Asked(1, <<"a">>, 2)}

\* The database after user 1 has asked up to MaxTagged such questions.
InitTags ==
    \E n \in 0..MaxTagged :
    \E rows \in [1..n -> TaggedRows] :
        /\ questions = rows
        /\ answers = <<>>
        /\ bookmarks = NoBookmarks
        /\ notifications = <<>>
        /\ communities = <<>>
        /\ memberships = <<>>
        /\ messages = <<>>
        /\ likes = {}
        /\ community_questions = <<>>
        /\ now = 10
        /\ reqs = <<>>
        /\ started = 0
        /\ last = Response("questions_list_create", 1, n, None, "title", 201, "")

NextTags ==
    \E days \in Days, lim \in TagLimits : trending_tags(days, lim)

SpecTags == InitTags /\ [][NextTags]_vars

\* ---------------------------------------------------------- trending users
\* The questions and the answers a user may have: asked or written
\* yesterday or on day 2, upvoted once or not at all.
ScoredQuestions ==
    {Asked(u, <<>>, t) : u \in Users, t \in {2, 9}} \cup
    {Upvoted(Asked(u, <<>>, 2)) : u \in Users}
ScoredAnswers ==
    {Replied(u, 1, t) : u \in Users, t \in {2, 9}} \cup
    {Upvoted(Replied(u, 1, 2)) : u \in Users}
UserLimits == {-1, 1, 21}

\* The database after one or two questions have been asked and up to two
\* answers written to the first. Today is day 10.
InitUsers ==
    \E n \in 1..2, m \in 0..2 :
    \E qs \in [1..n -> ScoredQuestions], as \in [1..m -> ScoredAnswers] :
        /\ questions = qs
        /\ answers = as
        /\ bookmarks = NoBookmarks
        /\ notifications = <<>>
        /\ communities = <<>>
        /\ memberships = <<>>
        /\ messages = <<>>
        /\ likes = {}
        /\ community_questions = <<>>
        /\ now = 10
        /\ reqs = <<>>
        /\ started = 0
        /\ last = Response("questions_list_create", qs[n].user, n, None,
                            "title", 201, "")

NextUsers ==
    \E days \in Days, lim \in UserLimits : trending_users(days, lim)

SpecUsers == InitUsers /\ [][NextUsers]_vars

\* ------------------------------------------------- communities and admins
\* Communities created and deleted, and the membership requests in them,
\* from the empty database.
NextAdmins ==
    \/ \E u \in Users : RoomC /\ RoomStamp /\ perform_create(u)
    \/ \E u \in Users, pk \in LiveIds(communities) :
          RoomM /\ RoomStamp /\ JoinCommunity_post(u, pk)
    \/ \E u \in Users, pk \in LiveIds(communities) : LeaveCommunity_post(u, pk)
    \/ \E u \in Users, pk \in LiveIds(communities),
          mid \in LiveIds(memberships) :
          RoomStamp /\ approve_join_request(u, pk, mid)
    \/ \E u \in Users, pk \in LiveIds(communities),
          mid \in LiveIds(memberships) :
          RoomStamp /\ decline_join_request(u, pk, mid)
    \/ \E u \in Users, pk \in LiveIds(communities) : delete_community(u, pk)

SpecAdmins == Init /\ [][NextAdmins]_vars

\* ------------------------------------------------- posting in a community
\* The row of user 2 in community 1: none, or one that is pending, declined
\* or approved.
Standings == {"none", "pending", "declined", "approved"}

\* The database after user 1 has asked a question, users 1 and 2 have each
\* created a community, user 1 has posted a message in the first, and user
\* 2 has or has not asked to join it and been answered.
InitPosting ==
    \E standing \in Standings :
    LET pending == Membership(1, 2, "member", "pending", 3, None, None)
        asked == create_notification(<<>>, 1, "community_join_request", 2,
                     None, None, <<"communities", 1, "admin">>)
        admins == Create(Create(<<>>,
                      Membership(1, 1, "admin", "approved", 1, 1, 1)),
                      Membership(2, 2, "admin", "approved", 2, 2, 2))
    IN
        /\ questions = Create(<<>>, Question(1, "title", "text"))
        /\ answers = <<>>
        /\ bookmarks = NoBookmarks
        /\ notifications =
             CASE standing = "none" -> <<>>
               [] standing = "pending" -> asked
               [] OTHER ->
                    create_notification(asked, 2,
                        IF standing = "approved"
                        THEN "community_request_approved"
                        ELSE "community_request_declined",
                        1, None, None, <<"communities", 1>>)
        /\ communities = Create(Create(<<>>, Community(1)), Community(2))
        /\ memberships =
             CASE standing = "none" -> admins
               [] standing = "pending" -> Create(admins, pending)
               [] OTHER -> Create(admins, Decided(pending, standing, 1, 4))
        /\ messages = Create(<<>>, Message(1, 1, None, "message"))
        /\ likes = {}
        /\ community_questions = <<>>
        /\ now = 5
        /\ reqs = <<>>
        /\ started = 0
        /\ last = Response("community_messages", 1, 1, 1, "message", 201, "")

NextPosting ==
    \/ \E u \in Users, pk \in LiveIds(communities),
          mtype \in {"message", "question"} :
          RoomPosts /\
          community_messages_post(u, pk, mtype, "text", None, "title")
    \/ \E u \in Users, pk \in LiveIds(communities), mid \in Ids(messages) :
          RoomPosts /\ reply_to_message(u, pk, mid, "text")
    \/ \E u \in Users, pk \in LiveIds(communities), mid \in LiveIds(messages) :
          RoomL /\ like_message(u, pk, mid)
    \/ \E u \in Users, pk \in LiveIds(communities) :
          RoomPosts /\ ask_community_question(u, pk, "title", "text")
    \/ \E u \in Users, pk \in LiveIds(communities),
          q \in {None} \cup LiveIds(questions) :
          RoomLinks /\ AddQuestionToCommunity_post(u, pk, q)

SpecPosting == InitPosting /\ [][NextPosting]_vars

\* ------------------------------------------- answer requests, interleaved
\* The application opens no transaction: each ORM call of a handler is a
\* statement of its own, and statements of requests in flight interleave.
\* A request in flight holds the Answer instance it loaded.
Idle == [pc |-> "idle", user |-> None, id |-> None, arg |-> "", row |-> Tomb]

InFlight(pc, u, a, arg, row) ==
    [pc |-> pc, user |-> u, id |-> a, arg |-> arg, row |-> row]

Quiet == \A r \in DOMAIN reqs : reqs[r].pc = "idle"

\* A response of request r, which ends it.
Done(r, op, code) ==
    /\ last' = Response(op, reqs[r].user, reqs[r].id, None, reqs[r].arg, code, "")
    /\ reqs' = [reqs EXCEPT ![r] = Idle]
    /\ started' = started

\* A response given on arrival, the database left as it is.
Immediate(op, u, i, arg, code) ==
    /\ last' = Response(op, u, i, None, arg, code, "")
    /\ started' = started + 1
    /\ UNCHANGED <<db, reqs>>

\* Request r goes on to its next statement.
Begin(r, req) ==
    /\ reqs' = [reqs EXCEPT ![r] = req]
    /\ started' = started + 1
    /\ UNCHANGED <<db, last>>

Goto(r, pc) ==
    /\ reqs' = [reqs EXCEPT ![r].pc = pc]
    /\ UNCHANGED <<started, last>>

\* accept_answer: Answer.objects.get and the owner check
accept_load(r, u, a) ==
    /\ reqs[r].pc = "idle"
    /\ IF ~Exists(answers, a)
       THEN Immediate("accept_answer", u, a, "", 404)
       ELSE IF questions[answers[a].question].user # u
       THEN Immediate("accept_answer", u, a, "", 403)
       ELSE Begin(r, InFlight("accept_clear", u, a, "", answers[a]))

\* accept_answer: the UPDATE that clears the accepted answers of the question
accept_clear(r) ==
    /\ reqs[r].pc = "accept_clear"
    /\ answers' = ClearAccepted(answers, reqs[r].row.question)
    /\ Goto(r, "accept_save")
    /\ UNCHANGED <<questions, bookmarks, notifications, community>>

\* accept_answer: answer.is_accepted = True; answer.save()
accept_save(r) ==
    /\ reqs[r].pc = "accept_save"
    /\ answers' = Save(answers, reqs[r].id,
                       [reqs[r].row EXCEPT !.is_accepted = TRUE])
    /\ Goto(r, "accept_notify")
    /\ UNCHANGED <<questions, bookmarks, notifications, community>>

\* accept_answer: the notification (its related_answer must exist) and the
\* response
accept_notify(r) ==
    /\ reqs[r].pc = "accept_notify"
    /\ IF Exists(answers, reqs[r].id)
       THEN /\ notifications' =
                 create_notification(notifications, reqs[r].row.user,
                     "answer_accepted", reqs[r].user, reqs[r].row.question,
                     reqs[r].id, NoUrl)
            /\ Done(r, "accept_answer", 200)
       ELSE /\ notifications' = notifications
            /\ Done(r, "accept_answer", 500)
    /\ UNCHANGED <<content, community>>

\* vote_answer: Answer.objects.get, the vote_type check and the increment of
\* the instance in memory
vote_load(r, u, a, vt) ==
    /\ reqs[r].pc = "idle"
    /\ IF ~Exists(answers, a)
       THEN Immediate("vote_answer", u, a, vt, 404)
       ELSE IF vt \notin {"upvote", "downvote"}
       THEN Immediate("vote_answer", u, a, vt, 400)
       ELSE Begin(r,
                 IF vt = "upvote"
                 THEN InFlight(IF answers[a].user # u THEN "vote_notify"
                               ELSE "vote_save",
                               u, a, vt, Upvoted(answers[a]))
                 ELSE InFlight("vote_save", u, a, vt, Downvoted(answers[a])))

\* vote_answer: the notification of an upvote, created before the save
vote_notify(r) ==
    /\ reqs[r].pc = "vote_notify"
    /\ IF Exists(answers, reqs[r].id)
       THEN /\ notifications' =
                 create_notification(notifications, reqs[r].row.user,
                     "answer_vote", reqs[r].user, reqs[r].row.question,
                     reqs[r].id, NoUrl)
            /\ Goto(r, "vote_save")
       ELSE /\ notifications' = notifications
            /\ Done(r, "vote_answer", 500)
    /\ UNCHANGED <<content, community>>

\* vote_answer: answer.save() and the response
vote_save(r) ==
    /\ reqs[r].pc = "vote_save"
    /\ answers' = Save(answers, reqs[r].id, reqs[r].row)
    /\ Done(r, "vote_answer", 200)
    /\ UNCHANGED <<questions, bookmarks, notifications, community>>

\* answer_detail PUT: Answer.objects.get, the owner check and the new
\* content of the instance in memory
edit_load(r, u, a, c) ==
    /\ reqs[r].pc = "idle"
    /\ IF ~Exists(answers, a)
       THEN Immediate("answer_detail_put", u, a, c, 404)
       ELSE IF answers[a].user # u
       THEN Immediate("answer_detail_put", u, a, c, 403)
       ELSE IF c = ""
       THEN Immediate("answer_detail_put", u, a, c, 200)
       ELSE Begin(r, InFlight("edit_save", u, a, c,
                               [answers[a] EXCEPT !.content = c]))

\* answer_detail PUT: answer.save() and the response
edit_save(r) ==
    /\ reqs[r].pc = "edit_save"
    /\ answers' = Save(answers, reqs[r].id, reqs[r].row)
    /\ Done(r, "answer_detail_put", 200)
    /\ UNCHANGED <<questions, bookmarks, notifications, community>>

\* answer_detail DELETE: Answer.objects.get and the owner check
delete_load(r, u, a) ==
    /\ reqs[r].pc = "idle"
    /\ IF ~Exists(answers, a)
       THEN Immediate("answer_detail_delete", u, a, "", 404)
       ELSE IF answers[a].user # u
       THEN Immediate("answer_detail_delete", u, a, "", 403)
       ELSE Begin(r, InFlight("delete_do", u, a, "", answers[a]))

\* answer_detail DELETE: answer.delete() with its cascade, and the response
delete_do(r) ==
    /\ reqs[r].pc = "delete_do"
    /\ answers' = IF Exists(answers, reqs[r].id)
                  THEN Delete(answers, reqs[r].id) ELSE answers
    /\ notifications' = CascadeAnswer(notifications, reqs[r].id)
    /\ Done(r, "answer_detail_delete", 200)
    /\ UNCHANGED <<questions, bookmarks, community>>

\* The database after one question has been asked and answered twice, by
\* any users; no request is in flight.
InitAnswerRace ==
    \E qo \in Users, a1 \in Users, a2 \in Users :
        /\ questions = Create(<<>>, Question(qo, "title", "text"))
        /\ answers = Create(Create(<<>>, Answer(a1, 1, "text")),
                            Answer(a2, 1, "text"))
        /\ bookmarks = NoBookmarks
        /\ notifications =
             LET n1 == IF qo # a1
                       THEN create_notification(<<>>, qo, "answer", a1, 1, 1, NoUrl)
                       ELSE <<>>
             IN  IF qo # a2
                 THEN create_notification(n1, qo, "answer", a2, 1, 2, NoUrl)
                 ELSE n1
        /\ communities = <<>>
        /\ memberships = <<>>
        /\ messages = <<>>
        /\ likes = {}
        /\ community_questions = <<>>
        /\ now = 1
        /\ reqs = [r \in Reqs |-> Idle]
        /\ started = 0
        /\ last = Response("question_answers", a2, 1, 2, "text", 201, "")

\* A request arrives while fewer than MaxStarted have; it takes the first
\* free slot (the slots are interchangeable).
Arrives(r) ==
    /\ started < MaxStarted
    /\ reqs[r].pc = "idle"
    /\ \A r2 \in Reqs : r2 < r => reqs[r2].pc # "idle"

NextAnswerRace ==
    \/ \E r \in Reqs, u \in Users, a \in Ids(answers) : Arrives(r) /\ accept_load(r, u, a)
    \/ \E r \in Reqs : accept_clear(r)
    \/ \E r \in Reqs : accept_save(r)
    \/ \E r \in Reqs : accept_notify(r)
    \/ \E r \in Reqs, u \in Users, a \in Ids(answers), vt \in VoteTypes :
          Arrives(r) /\ vote_load(r, u, a, vt)
    \/ \E r \in Reqs : vote_notify(r)
    \/ \E r \in Reqs : vote_save(r)
    \/ \E r \in Reqs, u \in Users, a \in Ids(answers), c \in AnswerContents :
          Arrives(r) /\ edit_load(r, u, a, c)
    \/ \E r \in Reqs : edit_save(r)
    \/ \E r \in Reqs, u \in Users, a \in Ids(answers) : Arrives(r) /\ delete_load(r, u, a)
    \/ \E r \in Reqs : delete_do(r)

SpecAnswerRace == InitAnswerRace /\ [][NextAnswerRace]_vars

\* --------------------------------------------- join requests, interleaved
\* The CommunityMembership instance a join request holds: its primary key
\* and its columns.
Instance(i, row) == [pk |-> i, row |-> row]

\* JoinCommunity.post: get_object_or_404, filter(...).first(), the status
\* checks and, for a declined row, the assignments to the instance in memory
join_load(r, u, pk) ==
    /\ reqs[r].pc = "idle"
    /\ IF ~Exists(communities, pk)
       THEN Immediate("JoinCommunity_post", u, pk, "", 404) /\ now' = now
       ELSE
           LET existing == MembershipsOf(memberships, pk, u)
               first == Head(Ordered(memberships, existing))
           IN
           IF existing # {} /\ memberships[first].status = "approved"
           THEN Immediate("JoinCommunity_post", u, pk, "", 400) /\ now' = now
           ELSE IF existing # {} /\ memberships[first].status = "pending"
           THEN Immediate("JoinCommunity_post", u, pk, "", 400) /\ now' = now
           ELSE IF existing # {}
           THEN /\ reqs' = [reqs EXCEPT ![r] =
                     InFlight("join_save", u, pk, "",
                         Instance(first, Rerequested(memberships[first], now)))]
                /\ started' = started + 1
                /\ now' = now + 1
                /\ UNCHANGED <<content, notifications, communities,
                               memberships, messages, likes, community_questions, last>>
           ELSE /\ reqs' = [reqs EXCEPT ![r] =
                     InFlight("join_create", u, pk, "", Instance(None, Tomb))]
                /\ started' = started + 1
                /\ UNCHANGED <<db, last>>

\* JoinCommunity.post: existing_membership.save(), an UPDATE by primary key
\* and, when the row is gone, an INSERT under that key; the IntegrityError of
\* an INSERT is not caught.
join_save(r) ==
    /\ reqs[r].pc = "join_save"
    /\ LET i == reqs[r].row.pk
           row == reqs[r].row.row
       IN  IF Exists(memberships, i) \/ Unique(memberships, row)
           THEN /\ memberships' = Save(memberships, i, row)
                /\ Goto(r, "join_notify")
           ELSE /\ memberships' = memberships
                /\ Done(r, "JoinCommunity_post", 500)
    /\ UNCHANGED <<content, notifications, communities, messages, likes,
                   community_questions, now>>

\* JoinCommunity.post: CommunityMembership.objects.create(...)
join_create(r) ==
    /\ reqs[r].pc = "join_create"
    /\ LET row == Membership(reqs[r].id, reqs[r].user, "member", "pending",
                             now, None, None)
       IN  IF Unique(memberships, row)
           THEN /\ memberships' = Create(memberships, row)
                /\ now' = now + 1
                /\ Goto(r, "join_notify")
           ELSE /\ memberships' = memberships
                /\ now' = now
                /\ Done(r, "JoinCommunity_post", 500)
    /\ UNCHANGED <<content, notifications, communities, messages, likes,
                   community_questions>>

\* JoinCommunity.post: the notification of every approved admin and the
\* response
join_notify(r) ==
    /\ reqs[r].pc = "join_notify"
    /\ notifications' =
         notify_each(notifications, memberships,
             Ordered(memberships, ApprovedAdmins(memberships, reqs[r].id)),
             "community_join_request", reqs[r].user,
             <<"communities", reqs[r].id, "admin">>)
    /\ Done(r, "JoinCommunity_post", 200)
    /\ UNCHANGED <<content, communities, memberships, messages, likes,
                   community_questions, now>>

\* The database after user 1 has created a community and declined the join
\* request of user 2 (perform_create, JoinCommunity_post,
\* decline_join_request); no request is in flight.
InitJoinRace ==
    LET asked == Membership(1, 2, "member", "pending", 2, None, None) IN
    /\ questions = <<>>
    /\ answers = <<>>
    /\ bookmarks = NoBookmarks
    /\ notifications =
         create_notification(
             create_notification(<<>>, 1, "community_join_request", 2, None,
                                 None, <<"communities", 1, "admin">>),
             2, "community_request_declined", 1, None, None,
             <<"communities", 1>>)
    /\ communities = Create(<<>>, Community(1))
    /\ memberships =
         Create(Create(<<>>, Membership(1, 1, "admin", "approved", 1, 1, 1)),
                Decided(asked, "declined", 1, 3))
    /\ messages = <<>>
    /\ likes = {}
    /\ community_questions = <<>>
    /\ now = 4
    /\ reqs = [r \in Reqs |-> Idle]
    /\ started = 0
    /\ last = Response("decline_join_request", 1, 1, 2, "", 200, "")

\* A join request arrives while fewer than MaxJoins have.
JoinArrives(r) ==
    /\ started < MaxJoins
    /\ reqs[r].pc = "idle"
    /\ \A r2 \in Reqs : r2 < r => reqs[r2].pc # "idle"

\* Join requests run statement by statement; the decisions of the admin and
\* the leave requests run between their statements.
NextJoinRace ==
    \/ \E r \in Reqs, u \in Users, pk \in Ids(communities) :
          JoinArrives(r) /\ RoomT /\ join_load(r, u, pk)
    \/ \E r \in Reqs : join_save(r)
    \/ \E r \in Reqs : RoomM /\ RoomT /\ join_create(r)
    \/ \E r \in Reqs : join_notify(r)
    \/ \E u \in Users, pk \in Ids(communities), mid \in Ids(memberships) :
          RoomT /\ decline_join_request(u, pk, mid)
    \/ \E u \in Users, pk \in Ids(communities) : LeaveCommunity_post(u, pk)

SpecJoinRace == InitJoinRace /\ [][NextJoinRace]_vars

\* --------------------------------------- decisions of a request, interleaved
\* approve_join_request / decline_join_request: the two get_object_or_404,
\* the admin check, the status check and the assignments to the instance in
\* memory; an Http404 is answered 500 by the except clause.
decide_load(r, op, status, u, pk, mid) ==
    /\ reqs[r].pc = "idle"
    /\ IF ~Exists(communities, pk)
       THEN Immediate(op, u, pk, "", 500) /\ now' = now
       ELSE IF ~is_admin(memberships, pk, u)
       THEN Immediate(op, u, pk, "", 403) /\ now' = now
       ELSE IF ~MembershipIn(memberships, pk, mid)
       THEN Immediate(op, u, pk, "", 500) /\ now' = now
       ELSE IF NotPending(memberships[mid])
       THEN Immediate(op, u, pk, "", 400) /\ now' = now
       ELSE /\ reqs' = [reqs EXCEPT ![r] =
                 InFlight("decide_save", u, pk, op,
                     Instance(mid, Decided(memberships[mid], status, u, now)))]
            /\ started' = started + 1
            /\ now' = now + 1
            /\ UNCHANGED <<content, notifications, communities, memberships,
                           messages, likes, community_questions, last>>

\* membership.save()
decide_save(r) ==
    /\ reqs[r].pc = "decide_save"
    /\ memberships' = Save(memberships, reqs[r].row.pk, reqs[r].row.row)
    /\ Goto(r, "decide_notify")
    /\ UNCHANGED <<content, notifications, communities, messages, likes,
                   community_questions, now>>

\* Notification.create_notification for membership.user, and the response
decide_notify(r) ==
    /\ reqs[r].pc = "decide_notify"
    /\ notifications' =
         create_notification(notifications, reqs[r].row.row.user,
             IF reqs[r].arg = "approve_join_request"
             THEN "community_request_approved"
             ELSE "community_request_declined",
             reqs[r].user, None, None, <<"communities", reqs[r].id>>)
    /\ last' = Response(reqs[r].arg, reqs[r].user, reqs[r].id,
                        reqs[r].row.pk, "", 200, "")
    /\ reqs' = [reqs EXCEPT ![r] = Idle]
    /\ started' = started
    /\ UNCHANGED <<content, communities, memberships, messages, likes,
                   community_questions, now>>

\* The database after user 1 has created a community and user 2 has asked
\* to join it (perform_create, JoinCommunity_post); no request is in flight.
InitDecideRace ==
    /\ questions = <<>>
    /\ answers = <<>>
    /\ bookmarks = NoBookmarks
    /\ notifications =
         create_notification(<<>>, 1, "community_join_request", 2, None,
                             None, <<"communities", 1, "admin">>)
    /\ communities = Create(<<>>, Community(1))
    /\ memberships =
         Create(Create(<<>>, Membership(1, 1, "admin", "approved", 1, 1, 1)),
                Membership(1, 2, "member", "pending", 2, None, None))
    /\ messages = <<>>
    /\ likes = {}
    /\ community_questions = <<>>
    /\ now = 3
    /\ reqs = [r \in Reqs |-> Idle]
    /\ started = 0
    /\ last = Response("JoinCommunity_post", 2, 1, None, "", 200,
                       "request_sent")

\* Approve and decline requests run statement by statement.
NextDecideRace ==
    \/ \E r \in Reqs, u \in Users, pk \in Ids(communities),
          mid \in Ids(memberships) :
          JoinArrives(r) /\
          decide_load(r, "approve_join_request", "approved", u, pk, mid)
    \/ \E r \in Reqs, u \in Users, pk \in Ids(communities),
          mid \in Ids(memberships) :
          JoinArrives(r) /\
          decide_load(r, "decline_join_request", "declined", u, pk, mid)
    \/ \E r \in Reqs : decide_save(r)
    \/ \E r \in Reqs : decide_notify(r)

SpecDecideRace == InitDecideRace /\ [][NextDecideRace]_vars

\* ================================================================ properties
AcceptedOf(as, q) ==
    {i \in LiveIds(as) : as[i].question = q /\ as[i].is_accepted}

Answered(op, code) == last.op = op /\ last.code = code

\* C1: after an accept-answer call that succeeds, taken as one step, the
\* answer named in the call is the only accepted answer of its question, and
\* the answers of every other question are as they were.
C1_AcceptStep ==
    (last'.op = "accept_answer" /\ last'.code = 200) =>
        LET a == last'.id
            q == answers[a].question IN
        /\ questions[q].user = last'.user
        /\ AcceptedOf(answers', q) = {a}
        /\ Len(answers') = Len(answers)
        /\ \A i \in 1..Len(answers) :
              (answers[i].live /\ answers[i].question = q) \/ answers'[i] = answers[i]

C1_AcceptExactlyOne == [][C1_AcceptStep]_vars

\* An accept has succeeded on a question with a second answer, while an
\* answer of another question is accepted too.
C1_Witness ==
    /\ Answered("accept_answer", 200)
    /\ \E b \in LiveIds(answers) :
          /\ b # last.id
          /\ answers[b].question = answers[last.id].question
    /\ \E b \in LiveIds(answers) :
          /\ answers[b].question # answers[last.id].question
          /\ answers[b].is_accepted

\* C2: whenever no request is in flight, at most one answer of any question
\* is accepted, whatever the interleaving of the accept, vote, edit and delete
\* requests on answers that have run.
C2_OneAcceptedWhenQuiet ==
    Quiet => \A q \in LiveIds(questions) : Cardinality(AcceptedOf(answers, q)) <= 1

\* C3: an upvote of an existing question or answer raises the upvotes counter
\* of the target by exactly 1; it adds exactly one notification (question_vote
\* or answer_vote, to the owner, from the voter) when the owner is not the
\* voter, and none when the owner is the voter.
C3_VoteNotification(owner, voter, ntype) ==
    IF owner # voter
    THEN /\ Len(notifications') = Len(notifications) + 1
         /\ SubSeq(notifications', 1, Len(notifications)) = notifications
         /\ LET n == notifications'[Len(notifications')] IN
              /\ n.live
              /\ n.notification_type = ntype
              /\ n.recipient = owner
              /\ n.sender = voter
    ELSE notifications' = notifications

C3_UpvoteStep ==
    /\ (last'.op = "vote_question" /\ last'.arg = "upvote" /\
        Exists(questions, last'.id)) =>
          /\ last'.code = 200
          /\ questions'[last'.id].upvotes = questions[last'.id].upvotes + 1
          /\ C3_VoteNotification(questions[last'.id].user, last'.user,
                                 "question_vote")
    /\ (last'.op = "vote_answer" /\ last'.arg = "upvote" /\
        Exists(answers, last'.id)) =>
          /\ last'.code = 200
          /\ answers'[last'.id].upvotes = answers[last'.id].upvotes + 1
          /\ C3_VoteNotification(answers[last'.id].user, last'.user,
                                 "answer_vote")

C3_UpvoteByOne == [][C3_UpvoteStep]_vars

\* A question upvoted by its owner (no notification of that vote) and an
\* answer upvoted by another user (notified) are both reached.
C3_Witness ==
    /\ Answered("vote_answer", 200)
    /\ last.arg = "upvote"
    /\ answers[last.id].user # last.user
    /\ notifications[Len(notifications)].notification_type = "answer_vote"
    /\ questions[1].upvotes = 1
    /\ \A i \in 1..Len(notifications) :
          notifications[i].notification_type # "question_vote"

\* C4: no notification has its sender as its recipient, whatever votes,
\* answers, accepts, join requests, approvals, declines, replies, community
\* questions and community deletions have run; upvoting, answering or
\* accepting on one's own question or answer adds no notification.
C4_NoSelfNotification ==
    \A i \in LiveIds(notifications) :
        notifications[i].sender # notifications[i].recipient

\* The owner of a question has accepted their own answer to it, after a
\* reply in the community has notified its other member.
C4_Witness ==
    /\ Answered("accept_answer", 200)
    /\ answers[last.id].user = last.user
    /\ answers[last.id].is_accepted
    /\ \E i \in LiveIds(notifications) :
          notifications[i].notification_type = "community_post"

\* C5: a bookmark toggle flips the existence of the (user, question) bookmark
\* and reports the new state in isBookmarked; a second toggle right after it
\* restores the state from before the first; no pair ever has two rows.
HasBookmark(bs, u, q) == Count(bs, <<u, q>>) > 0

C5_ToggleStep ==
    (last'.op = "bookmark_question" /\ last'.code = 200) =>
        LET u == last'.user
            q == last'.id IN
        /\ HasBookmark(bookmarks', u, q) = ~HasBookmark(bookmarks, u, q)
        /\ (last'.resp = "isBookmarked") = HasBookmark(bookmarks', u, q)
        /\ \A p \in (DOMAIN bookmarks \cup DOMAIN bookmarks') \ {<<u, q>>} :
              Count(bookmarks', p) = Count(bookmarks, p)
        /\ (last.op = "bookmark_question" /\ last.code = 200 /\
            last.user = u /\ last.id = q) =>
              \* last.resp reports the state the first call left, the
              \* opposite of the state it found
              HasBookmark(bookmarks', u, q) = (last.resp = "notBookmarked")

C5_BookmarkUnique == \A p \in DOMAIN bookmarks : bookmarks[p] <= 1

C5_BookmarkToggle == []C5_BookmarkUnique /\ [][C5_ToggleStep]_vars

\* A toggle has removed a bookmark while another user still holds one on the
\* same question.
C5_Witness ==
    /\ Answered("bookmark_question", 200)
    /\ last.resp = "notBookmarked"
    /\ ~HasBookmark(bookmarks, last.user, last.id)
    /\ \E u \in Users : HasBookmark(bookmarks, u, last.id)

\* An admin row of user u in community c, read off the table.
AdminRow(ms, c, u) ==
    \E i \in LiveIds(ms) :
        ms[i].community = c /\ ms[i].user = u /\ ms[i].role = "admin"

DecideOps == {"approve_join_request", "decline_join_request"}

\* C6: a join request of a user whose row of the community is pending or
\* approved is answered with the already-pending / already-member error and
\* changes no membership row and no notification; of a user whose row is
\* declined, it sets that row to pending and stamps requested_at anew, adding
\* no row; of a user without a row, it adds exactly one row, role member and
\* status pending.
C6_JoinStep ==
    (last'.op = "JoinCommunity_post" /\ Exists(communities, last'.id)) =>
        LET u == last'.user
            c == last'.id
            rows == MembershipsOf(memberships, c, u)
        IN
        /\ (\E i \in rows : memberships[i].status = "approved") =>
              /\ last'.code = 400 /\ last'.resp = "already_member"
              /\ memberships' = memberships
              /\ notifications' = notifications
        /\ (\E i \in rows : memberships[i].status = "pending") =>
              /\ last'.code = 400 /\ last'.resp = "pending"
              /\ memberships' = memberships
              /\ notifications' = notifications
        /\ (\E i \in rows : memberships[i].status = "declined") =>
              /\ last'.code = 200
              /\ \E i \in rows :
                    /\ memberships' =
                         [memberships EXCEPT ![i].status = "pending",
                                             ![i].requested_at = now]
                    /\ memberships'[i].requested_at > memberships[i].requested_at
        /\ rows = {} =>
              /\ last'.code = 200
              /\ memberships' =
                   Append(memberships,
                       [live |-> TRUE, community |-> c, user |-> u,
                        role |-> "member", status |-> "pending",
                        requested_at |-> now, approved_at |-> None,
                        approved_by |-> None])

C6_JoinRequest == [][C6_JoinStep]_vars

\* A user whose request was declined has asked again: the row that was
\* declined is pending, stamped after the decision.
C6_Witness ==
    /\ Answered("JoinCommunity_post", 200)
    /\ \E i \in MembershipsOf(memberships, last.id, last.user) :
          /\ memberships[i].status = "pending"
          /\ memberships[i].approved_by # None
          /\ memberships[i].requested_at > memberships[i].approved_at

\* C7: no (community, user) pair has two membership rows, every role is
\* admin or member and every status is pending, approved or declined, in
\* every state that interleaved join requests reach.
C7_OneRowPerPair ==
    /\ \A i \in LiveIds(memberships), j \in LiveIds(memberships) :
          (/\ memberships[i].community = memberships[j].community
           /\ memberships[i].user = memberships[j].user) => i = j
    /\ \A i \in LiveIds(memberships) :
          /\ memberships[i].role \in {"admin", "member"}
          /\ memberships[i].status \in {"pending", "approved", "declined"}

\* Of two join requests that both found no row, one has created the row and
\* the other has failed on the unique constraint.
C7_Witness ==
    /\ Answered("JoinCommunity_post", 500)
    /\ \E i \in MembershipsOf(memberships, last.id, last.user) :
          memberships[i].status = "pending"

\* C8: an approve or decline of a pending membership of the community by an
\* admin of that community succeeds; a successful approve sets the status to
\* approved, approved_by to the admin and approved_at to the time of the
\* call, a successful decline sets the status to declined; either adds
\* exactly one notification, of its own type, to the user who asked.
C8_DecideStep ==
    last'.op \in DecideOps =>
        LET u == last'.user
            c == last'.id
            mid == last'.id2
            approve == last'.op = "approve_join_request"
        IN
        /\ (/\ Exists(communities, c)
            /\ AdminRow(memberships, c, u)
            /\ Exists(memberships, mid)
            /\ memberships[mid].community = c
            /\ memberships[mid].status = "pending") => last'.code = 200
        /\ last'.code = 200 =>
              /\ memberships[mid].status = "pending"
              /\ memberships' =
                   [memberships EXCEPT
                       ![mid].status = IF approve THEN "approved" ELSE "declined",
                       ![mid].approved_by = u,
                       ![mid].approved_at = now]
              /\ Len(notifications') = Len(notifications) + 1
              /\ SubSeq(notifications', 1, Len(notifications)) = notifications
              /\ LET n == notifications'[Len(notifications')] IN
                    /\ n.live
                    /\ n.recipient = memberships[mid].user
                    /\ n.sender = u
                    /\ n.notification_type =
                         IF approve THEN "community_request_approved"
                         ELSE "community_request_declined"

C8_Decision == [][C8_DecideStep]_vars

\* An admin has approved the request of another user, who is notified of it.
C8_Witness ==
    /\ Answered("approve_join_request", 200)
    /\ memberships[last.id2].status = "approved"
    /\ memberships[last.id2].approved_by = last.user
    /\ memberships[last.id2].user # last.user
    /\ LET n == notifications[Len(notifications)] IN
          /\ n.notification_type = "community_request_approved"
          /\ n.recipient = memberships[last.id2].user

\* C9: an approve or decline by a user who is not an admin of the community,
\* or of a membership that is not pending, or of a membership of another
\* community, is answered with an error and changes no membership row and
\* no notification.
C9_RejectStep ==
    (/\ last'.op \in DecideOps
     /\ \/ ~AdminRow(memberships, last'.id, last'.user)
        \/ /\ Exists(memberships, last'.id2)
           /\ memberships[last'.id2].status # "pending"
        \/ /\ Exists(memberships, last'.id2)
           /\ memberships[last'.id2].community # last'.id) =>
        /\ last'.code >= 400
        /\ memberships' = memberships
        /\ notifications' = notifications

C9_Rejected == [][C9_RejectStep]_vars

\* The user who asked to join has tried to approve the request, which is
\* still pending.
C9_Witness ==
    /\ Answered("approve_join_request", 403)
    /\ Exists(memberships, last.id2)
    /\ memberships[last.id2].community = last.id
    /\ memberships[last.id2].user = last.user
    /\ memberships[last.id2].status = "pending"

\* C10: in a step of a join, approve, decline or leave request a membership
\* row keeps its status, is removed, or goes from pending to approved, from
\* pending to declined, or from declined to pending (by a join request of
\* the user of the row); a row that appears is pending.
C10_Transition(old, new) ==
    \/ new = old.status
    \/ old.status = "pending" /\ new \in {"approved", "declined"}
    \/ /\ old.status = "declined" /\ new = "pending"
       /\ last'.op = "JoinCommunity_post"
       /\ last'.user = old.user

C10_StatusStep ==
    /\ Len(memberships') >= Len(memberships)
    /\ \A i \in 1..Len(memberships) :
          IF memberships[i].live
          THEN memberships'[i].live =>
                  C10_Transition(memberships[i], memberships'[i].status)
          ELSE ~memberships'[i].live
    /\ \A i \in (Len(memberships) + 1)..Len(memberships') :
          memberships'[i].status = "pending"

C10_StatusTransitions == [][C10_StatusStep]_vars

\* A declined row has become pending again by a join request, while an
\* approved row of another community stands.
C10_Witness ==
    /\ Answered("JoinCommunity_post", 200)
    /\ \E i \in LiveIds(memberships) :
          /\ memberships[i].user = last.user
          /\ memberships[i].community = last.id
          /\ memberships[i].status = "pending"
          /\ memberships[i].approved_at # None
    /\ \E i \in LiveIds(memberships) : memberships[i].status = "approved"

\* C11: a leave request of a user who is not the creator of the community
\* and has a membership row in it, whatever the status of the row, deletes
\* that row and no other; a leave request of the creator, or of a user
\* without a row, is rejected and changes no row.
C11_LeaveStep ==
    (last'.op = "LeaveCommunity_post" /\ Exists(communities, last'.id)) =>
        LET u == last'.user
            c == last'.id
            rows == MembershipsOf(memberships, c, u)
        IN
        /\ communities' = communities
        /\ notifications' = notifications
        /\ IF communities[c].creator # u /\ rows # {}
           THEN /\ last'.code = 200
                /\ \E i \in rows : memberships' = [memberships EXCEPT ![i] = Tomb]
                /\ MembershipsOf(memberships', c, u) = {}
           ELSE /\ last'.code = 400
                /\ last'.resp = (IF communities[c].creator = u
                                 THEN "creator_cannot_leave" ELSE "not_member")
                /\ memberships' = memberships

C11_Leave == [][C11_LeaveStep]_vars

\* A user whose request had been declined has left: the row is gone, the
\* notification of the decision stands, the rows of the admins are in place.
C11_Witness ==
    /\ Answered("LeaveCommunity_post", 200)
    /\ MembershipsOf(memberships, last.id, last.user) = {}
    /\ \E i \in 1..Len(memberships) : ~memberships[i].live
    /\ \E i \in LiveIds(notifications) :
          /\ notifications[i].recipient = last.user
          /\ notifications[i].notification_type = "community_request_declined"
    /\ Cardinality(LiveIds(memberships)) = 2

\* The notifications a step has added, in the order of their creation.
AddedNotifications ==
    SubSeq(notifications', Len(notifications) + 1, Len(notifications'))

\* The step has deleted or changed no notification.
NotificationsKept ==
    /\ Len(notifications') >= Len(notifications)
    /\ SubSeq(notifications', 1, Len(notifications)) = notifications

\* The step has added one notification of type ntype from sender to each
\* user of the set to, and no other notification.
NotifiedExactly(to, ntype, sender) ==
    /\ NotificationsKept
    /\ Len(AddedNotifications) = Cardinality(to)
    /\ \A k \in 1..Len(AddedNotifications) :
          /\ AddedNotifications[k].live
          /\ AddedNotifications[k].recipient \in to
          /\ AddedNotifications[k].notification_type = ntype
          /\ AddedNotifications[k].sender = sender
    /\ \A r \in to :
          Cardinality({k \in 1..Len(AddedNotifications) :
                          AddedNotifications[k].recipient = r}) = 1

\* The users who hold an approved admin row of community c.
AdminUsers(ms, c) ==
    {ms[i].user : i \in {j \in LiveIds(ms) : /\ ms[j].community = c
                                             /\ ms[j].role = "admin"
                                             /\ ms[j].status = "approved"}}

\* C12: a join request that creates a pending row or resets a declined row
\* to pending adds one community_join_request notification for each user who
\* holds an approved admin row of the community, and no other notification.
C12_JoinNotifyStep ==
    (last'.op = "JoinCommunity_post" /\ last'.code = 200) =>
        /\ \E i \in MembershipsOf(memberships', last'.id, last'.user) :
              /\ memberships'[i].status = "pending"
              /\ memberships'[i].requested_at = now
        /\ NotifiedExactly(AdminUsers(memberships', last'.id),
                           "community_join_request", last'.user)

C12_JoinNotifiesAdmins == [][C12_JoinNotifyStep]_vars

\* The admin of a community has been notified of a request, has declined it
\* and has been notified of the second request of the same user.
C12_Witness ==
    /\ Answered("JoinCommunity_post", 200)
    /\ Len(notifications) = 3
    /\ notifications[1].notification_type = "community_join_request"
    /\ notifications[2].notification_type = "community_request_declined"
    /\ notifications[3].notification_type = "community_join_request"
    /\ notifications[3].recipient = communities[last.id].creator
    /\ notifications[3].sender = last.user

\* The users who hold an approved row of community c.
ApprovedUsers(ms, c) ==
    {ms[i].user : i \in {j \in LiveIds(ms) : /\ ms[j].community = c
                                             /\ ms[j].status = "approved"}}

\* C13: a successful reply to a community message, and a successful
\* community question, adds one community_post notification for each
\* approved member of the community other than the actor, and no other
\* notification: none for the actor, for a user whose row is pending or
\* declined, or for a user without a row.
C13_PostNotifyStep ==
    (/\ last'.op \in {"reply_to_message", "ask_community_question"}
     /\ last'.code = 201) =>
        NotifiedExactly(ApprovedUsers(memberships, last'.id) \ {last'.user},
                        "community_post", last'.user)

C13_PostNotifiesMembers == [][C13_PostNotifyStep]_vars

\* A reply in a community has notified its other approved member, while a
\* user's request to join another community is pending.
C13_Witness ==
    /\ Answered("reply_to_message", 201)
    /\ notifications[Len(notifications)].notification_type = "community_post"
    /\ notifications[Len(notifications)].recipient # last.user
    /\ \E i \in LiveIds(memberships) : memberships[i].status = "pending"

\* C14: a successful POST of a new message to the messages endpoint of a
\* community adds one community_post notification for each approved member
\* of the community other than the author.
C14_MessageNotifyStep ==
    (last'.op = "community_messages" /\ last'.code = 201) =>
        NotifiedExactly(ApprovedUsers(memberships, last'.id) \ {last'.user},
                        "community_post", last'.user)

C14_MessageNotifiesMembers == [][C14_MessageNotifyStep]_vars

\* The ids of the live rows of a table that belong to community c.
RowsOf(table, c) == {i \in LiveIds(table) : table[i].community = c}

\* C15: a deletion of a community by an admin or the creator of it succeeds,
\* adds one system notification for each approved member other than the
\* deleter, and leaves no membership, message, like or community-question
\* row of the community; a deletion asked by any other user is rejected,
\* adds no notification and removes nothing.
C15_DeleteStep ==
    (last'.op = "delete_community" /\ Exists(communities, last'.id)) =>
        LET u == last'.user
            c == last'.id
        IN
        IF AdminRow(memberships, c, u) \/ communities[c].creator = u
        THEN /\ last'.code = 200
             /\ NotifiedExactly(ApprovedUsers(memberships, c) \ {u},
                                "system", u)
             /\ ~Exists(communities', c)
             /\ RowsOf(memberships', c) = {}
             /\ RowsOf(messages', c) = {}
             /\ RowsOf(community_questions', c) = {}
             /\ \A l \in likes' : l[2] \notin RowsOf(messages, c)
        ELSE /\ last'.code = 403
             /\ notifications' = notifications
             /\ communities' = communities
             /\ memberships' = memberships
             /\ messages' = messages
             /\ likes' = likes
             /\ community_questions' = community_questions

C15_Deletion == [][C15_DeleteStep]_vars

\* A community with a question posted in it has been deleted by its admin:
\* the other approved member is notified, the message and community-question
\* rows are gone, the other community stands.
C15_Witness ==
    /\ Answered("delete_community", 200)
    /\ notifications[Len(notifications)].notification_type = "system"
    /\ notifications[Len(notifications)].recipient # last.user
    /\ \E i \in 1..Len(community_questions) : ~community_questions[i].live
    /\ \E i \in 1..Len(messages) : ~messages[i].live
    /\ LiveIds(communities) # {}

\* The step has added one notification, of type ntype, from sender to
\* recipient, about question q and answer a, when the two users differ, and
\* none when they are the same.
NotifiedAbout(recipient, sender, ntype, q, a) ==
    IF recipient # sender
    THEN /\ NotifiedExactly({recipient}, ntype, sender)
         /\ AddedNotifications[1].related_question = q
         /\ AddedNotifications[1].related_answer = a
    ELSE notifications' = notifications

\* C16: a successful new answer adds one notification of type answer for
\* the owner of the question exactly when the answerer is not that owner; a
\* successful accept adds one notification of type answer_accepted for the
\* owner of the answer exactly when that owner is not the accepting owner of
\* the question; each refers to the question and the answer.
C16_AnswerNotifyStep ==
    /\ (last'.op = "question_answers" /\ last'.code = 201) =>
          /\ last'.id2 = Len(answers) + 1
          /\ NotifiedAbout(questions[last'.id].user, last'.user, "answer",
                           last'.id, last'.id2)
    /\ (last'.op = "accept_answer" /\ last'.code = 200) =>
          NotifiedAbout(answers[last'.id].user, last'.user, "answer_accepted",
                        answers[last'.id].question, last'.id)

C16_AnswerNotifications == [][C16_AnswerNotifyStep]_vars

\* The owner of a question has accepted the answer of another user, who is
\* notified of it, after answering the question themselves unnotified.
C16_Witness ==
    /\ Answered("accept_answer", 200)
    /\ answers[last.id].user # last.user
    /\ LET n == notifications[Len(notifications)] IN
          /\ n.notification_type = "answer_accepted"
          /\ n.recipient = answers[last.id].user
          /\ n.related_answer = last.id
          /\ n.related_question = answers[last.id].question
    /\ \E b \in LiveIds(answers) :
          /\ answers[b].user = last.user
          /\ answers[b].question = answers[last.id].question
    /\ Len(notifications) = 2

\* The action_url the handler that answered passes to create_notification:
\* the community handlers pass one, the question and answer handlers none.
ExplicitUrl(resp) ==
    IF resp.op = "JoinCommunity_post" THEN <<"communities", resp.id, "admin">>
    ELSE IF resp.op \in DecideOps THEN <<"communities", resp.id>>
    ELSE IF resp.op \in {"reply_to_message", "ask_community_question"}
    THEN <<"communities", resp.id, "messages">>
    ELSE IF resp.op = "delete_community" THEN <<"communities">>
    ELSE NoUrl

\* C17: a notification row carries the action_url that was passed for it,
\* with or without a related question; when none was passed it carries the
\* question-detail path of its related question, and no url when it has no
\* related question either.
C17_ActionUrlStep ==
    \A k \in 1..Len(AddedNotifications) :
        LET n == AddedNotifications[k] IN
        n.action_url =
            IF ExplicitUrl(last') # NoUrl THEN ExplicitUrl(last')
            ELSE IF n.related_question # None
            THEN QuestionUrl(n.related_question)
            ELSE NoUrl

C17_ActionUrl == [][C17_ActionUrlStep]_vars

\* C18: the response of a join or leave request is a success whose status
\* field is "success", or a failure whose status field is "error" with an
\* HTTP status of 400, 401, 403, 404 or 500 (`resp` is the status field of
\* the body of these responses, empty when the body has none).
C18_ResponseShape ==
    last.op \in {"JoinCommunity_post", "LeaveCommunity_post"} =>
        \/ last.code = 200 /\ last.resp = "success"
        \/ last.code \in {400, 401, 403, 404, 500} /\ last.resp = "error"

\* The request that was answered names a row that does not exist: a missing
\* question or answer, a missing community, or, for a decision of an admin,
\* a membership id that is not a row of the community.
NamesMissingRow ==
    \/ /\ last'.op \in {"vote_question", "bookmark_question", "question_answers"}
       /\ ~Exists(questions, last'.id)
    \/ /\ last'.op \in {"vote_answer", "accept_answer"}
       /\ ~Exists(answers, last'.id)
    \/ /\ last'.op \in DecideOps \cup {"delete_community"}
       /\ ~Exists(communities, last'.id)
    \/ /\ last'.op \in DecideOps
       /\ Exists(communities, last'.id)
       /\ AdminRow(memberships, last'.id, last'.user)
       /\ ~(/\ Exists(memberships, last'.id2)
            /\ memberships[last'.id2].community = last'.id)

\* C19: a request that names a row that does not exist is answered 404 and
\* changes no state.
C19_MissingStep == NamesMissingRow => (last'.code = 404 /\ UNCHANGED db)

C19_NotFound == [][C19_MissingStep]_vars

\* C20: the upvotes and downvotes counters of a question or an answer never
\* decrease from one state to the next, whatever the interleaving of the
\* vote, edit, accept and delete requests that load a row, change it in
\* memory and save it whole.
C20_MonotoneStep ==
    /\ \A i \in LiveIds(answers) \cap LiveIds(answers') :
          /\ answers'[i].upvotes >= answers[i].upvotes
          /\ answers'[i].downvotes >= answers[i].downvotes
    /\ \A i \in LiveIds(questions) \cap LiveIds(questions') :
          /\ questions'[i].upvotes >= questions[i].upvotes
          /\ questions'[i].downvotes >= questions[i].downvotes

C20_CountersMonotone == [][C20_MonotoneStep]_vars

\* ---------------------------------------------------------------- C21
\* C21: in every reachable state every question has a title and a
\* description that are non-empty after trimming, whichever of the create,
\* edit, ask-community-question and question-message requests wrote them.
C21_QuestionTextsNotBlank ==
    \A q \in LiveIds(questions) :
        ~Blank(questions[q].title) /\ ~Blank(questions[q].description)

\* ---------------------------------------------------------------- C22
\* The requests by which the recipient marks notifications read.
ReadOps == {"mark_notification_read", "mark_all_notifications_read"}

\* C22: after its creation a notification changes only by is_read going
\* from false to true at the request of its recipient, and is removed only
\* by a delete request of its recipient; a request of any other user, the
\* deletion of a question or an answer included, leaves it as it is, and
\* marking all read removes none.
C22_FrameStep ==
    \A i \in LiveIds(notifications) :
        LET old == notifications[i]
            new == notifications'[i]
        IN  IF ~new.live
            THEN /\ last'.op = "delete_notification"
                 /\ last'.user = old.recipient
                 /\ last'.id = i
            ELSE new # old =>
                 /\ ~old.is_read
                 /\ new = [old EXCEPT !.is_read = TRUE]
                 /\ last'.op \in ReadOps
                 /\ last'.user = old.recipient

C22_NotificationFrame == [][C22_FrameStep]_vars

\* ---------------------------------------------------------------- C23
\* The number of questions the filters of a search match.
MatchCount(request) ==
    Cardinality({i \in LiveIds(questions) :
        /\ request.q = "" \/ questions[i].title = request.q
                          \/ questions[i].description = request.q
        /\ request.user_id = None \/ questions[i].user = request.user_id})

\* C23: a search with limit L (capped at 100, not negative) and offset O
\* (not negative) over T matching questions returns min(L, max(0, T - O))
\* questions with total_count = T and has_more true exactly when O + L < T;
\* limit 1 and offset 1 over 3 matches return 1 question and has_more.
C23_SearchPagination ==
    (last.op = "search_questions" /\ last.id >= 0 /\ last.id2 >= 0) =>
        LET L == IF last.id > 100 THEN 100 ELSE last.id
            O == last.id2
            T == MatchCount(last.arg)
            left == IF T - O > 0 THEN T - O ELSE 0
        IN  /\ last.code = 200
            /\ Len(last.resp.data) = (IF L < left THEN L ELSE left)
            /\ last.resp.returned_count = Len(last.resp.data)
            /\ last.resp.total_count = T
            /\ last.resp.has_more = (O + L < T)
            /\ (L = 1 /\ O = 1 /\ T = 3) =>
                  Len(last.resp.data) = 1 /\ last.resp.has_more

\* ---------------------------------------------------------------- C24
\* The questions created in the window of the trending request answered
\* last.
InWindow ==
    {i \in LiveIds(questions) : questions[i].created_at >= now - last.id}

\* The number of places of the tag list of question i that hold the tag.
Places(i, tag) ==
    Cardinality({k \in 1..Len(questions[i].tags) : questions[i].tags[k] = tag})

\* The number of occurrences of the tag over the questions of S.
RECURSIVE Occurrences(_, _)
Occurrences(S, tag) ==
    IF S = {} THEN 0
    ELSE LET i == CHOOSE i \in S : TRUE
         IN  Places(i, tag) + Occurrences(S \ {i}, tag)

\* The tags, not blank, of the questions of S.
TagsOf(S) ==
    UNION {{questions[i].tags[k] : k \in 1..Len(questions[i].tags)} : i \in S}
        \ {"", " "}

\* C24: trending_tags answers with the tags, non-empty after trimming, of
\* the questions created in the window, each once and with the number of
\* its occurrences over those questions, in non-increasing order of count,
\* cut to the limit (at most 50) so that no tag left out has more
\* occurrences than one returned; the tag lists [a, b], [a], [c] give
\* a:2, b:1, c:1.
C24_TrendingTags ==
    (last.op = "trending_tags" /\ last.id2 >= 0) =>
        LET data == last.resp
            limit == IF last.id2 > 50 THEN 50 ELSE last.id2
            tags == TagsOf(InWindow)
            returned == {data[k][1] : k \in 1..Len(data)}
        IN  /\ last.code = 200
            /\ \A k \in 1..Len(data) :
                  /\ data[k][1] \in tags
                  /\ data[k][2] = Occurrences(InWindow, data[k][1])
                  /\ \A m \in 1..Len(data) : data[m][1] = data[k][1] => m = k
                  /\ k > 1 => data[k - 1][2] >= data[k][2]
            /\ Len(data) = (IF limit < Cardinality(tags) THEN limit
                            ELSE Cardinality(tags))
            /\ \A tag \in tags \ returned : \A k \in 1..Len(data) :
                  Occurrences(InWindow, tag) <= data[k][2]
            /\ ({questions[i].tags : i \in InWindow} =
                    {<<"a", "b">>, <<"a">>, <<"c">>}
                /\ Cardinality(InWindow) = 3 /\ limit >= 3) =>
                  /\ data[1] = <<"a", 2>>
                  /\ {data[2], data[3]} = {<<"b", 1>>, <<"c", 1>>}

\* trending_tags has answered over three questions in the window, tagged
\* [a, b], [a] and [c].
C24_Witness ==
    /\ last.op = "trending_tags"
    /\ last.id2 = 51
    /\ {questions[i].tags : i \in InWindow} = {<<"a", "b">>, <<"a">>, <<"c">>}
    /\ Cardinality(InWindow) = 3
    /\ Len(last.resp) = 3
    /\ last.resp[1] = <<"a", 2>>

\* ---------------------------------------------------------------- C25
\* The rows of user u in a table, and those created in the window of the
\* trending request answered last.
Owned(table, u) == {i \in LiveIds(table) : table[i].user = u}

OwnedRecent(table, u) ==
    {i \in Owned(table, u) : table[i].created_at >= now - last.id}

\* The sum of the upvotes of the rows of S.
RECURSIVE Upvotes(_, _)
Upvotes(table, S) ==
    IF S = {} THEN 0
    ELSE LET i == CHOOSE i \in S : TRUE
         IN  table[i].upvotes + Upvotes(table, S \ {i})

\* 5 * recent questions + 3 * recent answers + 2 * upvotes of the user's
\* questions + the upvotes of the user's answers.
ActivityScore(u) ==
    5 * Cardinality(OwnedRecent(questions, u)) +
    3 * Cardinality(OwnedRecent(answers, u)) +
    2 * Upvotes(questions, Owned(questions, u)) +
    Upvotes(answers, Owned(answers, u))

\* C25: trending_users reports for each user it returns the score
\* 5 * recent questions + 3 * recent answers + 2 * question upvotes +
\* answer upvotes and the two recent counts, returns only users of positive
\* score, in non-increasing order of score, and leaves out no user of
\* positive score while the limit allows one more.
C25_TrendingUsers ==
    (last.op = "trending_users" /\ last.id2 >= 0) =>
        LET data == last.resp
            limit == IF last.id2 > 20 THEN 20 ELSE last.id2
            positive == {u \in Users : ActivityScore(u) > 0}
        IN  /\ last.code = 200
            /\ \A k \in 1..Len(data) :
                  /\ data[k].id \in positive
                  /\ data[k].activity_score = ActivityScore(data[k].id)
                  /\ data[k].recent_questions =
                        Cardinality(OwnedRecent(questions, data[k].id))
                  /\ data[k].recent_answers =
                        Cardinality(OwnedRecent(answers, data[k].id))
                  /\ k > 1 => data[k - 1].activity_score >=
                              data[k].activity_score
            /\ Len(data) = (IF limit < Cardinality(positive) THEN limit
                            ELSE Cardinality(positive))

\* ---------------------------------------------------------------- C26
\* What a vote of the request answered by this step does to the table of
\* its target: a downvote adds 1 to the downvotes of the target and to
\* nothing else, an invalid vote type is answered 400 and changes nothing;
\* neither creates a notification.
C26_Vote(op, table, table2) ==
    (last'.op = op /\ Exists(table, last'.id)) =>
        /\ last'.arg = "downvote" =>
              /\ last'.code = 200
              /\ table2 = [table EXCEPT
                              ![last'.id].downvotes = table[last'.id].downvotes + 1]
              /\ table2[last'.id].upvotes = table[last'.id].upvotes
              /\ notifications' = notifications
        /\ last'.arg \notin {"upvote", "downvote"} =>
              /\ last'.code = 400
              /\ table2 = table
              /\ notifications' = notifications

\* C26: a downvote of a question or an answer increases its downvotes by
\* exactly 1, leaves its upvotes unchanged and creates no notification; a
\* vote whose type is neither upvote nor downvote is rejected with 400,
\* changes no counter and creates no notification.
C26_DownvoteStep ==
    /\ C26_Vote("vote_question", questions, questions')
    /\ C26_Vote("vote_answer", answers, answers')
    /\ (last'.op \in {"vote_question", "vote_answer"} /\ last'.arg # "upvote")
          => (last'.op = "vote_question" => answers' = answers) /\
             (last'.op = "vote_answer" => questions' = questions)

C26_Downvote == [][C26_DownvoteStep]_vars

\* An answer downvoted by a user who does not own it, after the question
\* was downvoted too.
C26_Witness ==
    /\ last.op = "vote_answer" /\ last.arg = "downvote" /\ last.code = 200
    /\ answers[last.id].user # last.user
    /\ answers[last.id].downvotes = 1 /\ answers[last.id].upvotes = 0
    /\ questions[1].downvotes = 1

\* ---------------------------------------------------------------- C27
\* The membership rows of user u in community c.
RowsOfUser(c, u) ==
    {i \in LiveIds(memberships) :
        memberships[i].community = c /\ memberships[i].user = u}

PostOps ==
    {"community_messages", "reply_to_message", "like_message",
     "ask_community_question", "AddQuestionToCommunity_post"}

MessageOps == {"reply_to_message", "like_message"}

\* C28: a request to post a message, a reply, a like or a community
\* question in an existing community (on an existing message of it, for a
\* reply or a like), or to add a question to it, made by a user without an
\* approved row there (no row, a pending row or a declined row) is answered
\* 403 and changes no table, the notifications included; so every such
\* request that writes anything is made by a user whose row is approved.
C28_PostStep ==
    last'.op \in PostOps =>
        /\ (/\ Exists(communities, last'.id)
            /\ last'.op \in MessageOps =>
                  /\ Exists(messages, last'.id2)
                  /\ messages[last'.id2].community = last'.id
            /\ last'.user \notin ApprovedUsers(memberships, last'.id))
           => (last'.code = 403 /\ UNCHANGED db)
        /\ ~(UNCHANGED db) =>
              /\ Exists(communities, last'.id)
              /\ last'.user \in ApprovedUsers(memberships, last'.id)

C28_OnlyApprovedPost == [][C28_PostStep]_vars

\* A user whose join request was declined has been refused a reply.
C28_Witness ==
    /\ last.op = "reply_to_message" /\ last.code = 403
    /\ Exists(messages, last.id2)
    /\ \E i \in LiveIds(memberships) :
          /\ memberships[i].community = last.id
          /\ memberships[i].user = last.user
          /\ memberships[i].status = "declined"

\* ---------------------------------------------------------------- C29
\* C29: in every reachable state a message that has a parent message
\* belongs to the community of its parent, whether the reply endpoint or
\* the messages endpoint created it.
C29_ParentSameCommunity ==
    \A i \in LiveIds(messages) :
        (messages[i].parent_message # None /\
         Exists(messages, messages[i].parent_message)) =>
            messages[messages[i].parent_message].community =
                messages[i].community

\* ---------------------------------------------------------------- C30
\* The notifications that tell user u of a decision on a join request.
Decisions(u) ==
    {i \in LiveIds(notifications) :
        /\ notifications[i].recipient = u
        /\ notifications[i].notification_type \in
              {"community_request_approved", "community_request_declined"}}

\* C30: once every approve and decline request aimed at the one pending
\* row has returned, the requester has received at most one of the approved
\* and declined notifications, and the status of the row is the one that
\* notification announces.
C30_OneOutcome ==
    Quiet =>
        /\ Cardinality(Decisions(2)) <= 1
        /\ \A i \in Decisions(2) :
              notifications[i].notification_type =
                  (IF memberships[2].status = "approved"
                   THEN "community_request_approved"
                   ELSE "community_request_declined")
====
